---------------------------- MODULE Spec2Model ----------------------------
(***************************************************************************)
(* Model of the lot-doctor discovery and assessment pipeline               *)
(* (src-tauri/src/scanner): the orchestrator scan_network, the ARP table   *)
(* reader, the name resolvers as far as the orchestrator sees them, the    *)
(* fingerprinter, the port prober and the scorer.                          *)
(*                                                                         *)
(* Text that the code inspects character by character (MAC addresses,      *)
(* device names, vendor names) is a sequence of one-character strings, so  *)
(* that to_uppercase, to_lowercase, contains and format! are computed and  *)
(* not assumed.  A character outside ASCII is written "U+XXXX".            *)
(* Option<T> is a set with at most one element: None == {}.                *)
(***************************************************************************)
EXTENDS Integers, Sequences, FiniteSets, TLC

\* ------------------------------------------------------------------ text

LowerLetters ==
    <<"a", "b", "c", "d", "e", "f", "g", "h", "i", "j", "k", "l", "m",
      "n", "o", "p", "q", "r", "s", "t", "u", "v", "w", "x", "y", "z">>

UpperLetters ==
    <<"A", "B", "C", "D", "E", "F", "G", "H", "I", "J", "K", "L", "M",
      "N", "O", "P", "Q", "R", "S", "T", "U", "V", "W", "X", "Y", "Z">>

\* char::to_uppercase on one character
UpperChar(c) ==
    IF \E i \in 1..26 : LowerLetters[i] = c
    THEN UpperLetters[CHOOSE i \in 1..26 : LowerLetters[i] = c]
    ELSE c

\* char::to_lowercase on one character
LowerChar(c) ==
    IF \E i \in 1..26 : UpperLetters[i] = c
    THEN LowerLetters[CHOOSE i \in 1..26 : UpperLetters[i] = c]
    ELSE c

\* str::to_uppercase
ToUpper(s) == [i \in 1..Len(s) |-> UpperChar(s[i])]

\* str::to_lowercase
ToLower(s) == [i \in 1..Len(s) |-> LowerChar(s[i])]

\* str::contains(pattern)
Contains(s, p) ==
    \E i \in 0..(Len(s) - Len(p)) : SubSeq(s, i + 1, i + Len(p)) = p

\* .chars().take(n).collect::<String>()
Take(s, n) == SubSeq(s, 1, IF Len(s) < n THEN Len(s) ELSE n)

RECURSIVE Str(_)
\* the characters of s as one string (for comparison with a literal)
Str(s) == IF s = <<>> THEN "" ELSE Head(s) \o Str(Tail(s))

\* Option<T>
None == {}
Some(x) == {x}
IsSome(o) == o # {}
Unwrap(o) == CHOOSE x \in o : TRUE
\* Option::or
Or(a, b) == IF IsSome(a) THEN a ELSE b

\* HashMap::get(key).cloned()
Get(m, k) == IF k \in DOMAIN m THEN Some(m[k]) ELSE None

\* ------------------------------------------------- fingerprint.rs tables

\* const OUI_DATABASE: (first three octets, vendor name), in table order
OUI_DATABASE ==
    << <<"00:1A:2B", <<"B", "u", "f", "f", "a", "l", "o", " ", "I", "n", "c", ".">>>>,
       <<"00:26:AB", <<"B", "u", "f", "f", "a", "l", "o", " ", "I", "n", "c", ".">>>>,
       <<"AC:22:0B", <<"B", "u", "f", "f", "a", "l", "o", " ", "I", "n", "c", ".">>>>,
       <<"10:6F:3F", <<"B", "u", "f", "f", "a", "l", "o", " ", "I", "n", "c", ".">>>>,
       <<"18:C2:BF", <<"I", "-", "O", " ", "D", "A", "T", "A", " ", "D", "E", "V", "I", "C", "E", ",", " ", "I", "N", "C", ".">>>>,
       <<"00:A0:B0", <<"I", "-", "O", " ", "D", "A", "T", "A", " ", "D", "E", "V", "I", "C", "E", ",", " ", "I", "N", "C", ".">>>>,
       <<"40:8D:5C", <<"T", "P", "-", "L", "I", "N", "K", " ", "T", "E", "C", "H", "N", "O", "L", "O", "G", "I", "E", "S", " ", "C", "O", ".", ",", "L", "T", "D", ".">>>>,
       <<"50:C7:BF", <<"T", "P", "-", "L", "I", "N", "K", " ", "T", "E", "C", "H", "N", "O", "L", "O", "G", "I", "E", "S", " ", "C", "O", ".", ",", "L", "T", "D", ".">>>>,
       <<"FC:EC:DA", <<"T", "P", "-", "L", "I", "N", "K", " ", "T", "E", "C", "H", "N", "O", "L", "O", "G", "I", "E", "S", " ", "C", "O", ".", ",", "L", "T", "D", ".">>>>,
       <<"30:B5:C2", <<"T", "P", "-", "L", "I", "N", "K", " ", "T", "E", "C", "H", "N", "O", "L", "O", "G", "I", "E", "S", " ", "C", "O", ".", ",", "L", "T", "D", ".">>>>,
       <<"60:E3:27", <<"T", "P", "-", "L", "I", "N", "K", " ", "T", "E", "C", "H", "N", "O", "L", "O", "G", "I", "E", "S", " ", "C", "O", ".", ",", "L", "T", "D", ".">>>>,
       <<"B0:4E:26", <<"T", "P", "-", "L", "I", "N", "K", " ", "T", "E", "C", "H", "N", "O", "L", "O", "G", "I", "E", "S", " ", "C", "O", ".", ",", "L", "T", "D", ".">>>>,
       <<"A4:77:33", <<"G", "o", "o", "g", "l", "e", ",", " ", "I", "n", "c", ".">>>>,
       <<"D4:F5:47", <<"G", "o", "o", "g", "l", "e", ",", " ", "I", "n", "c", ".">>>>,
       <<"F4:F5:D8", <<"G", "o", "o", "g", "l", "e", ",", " ", "I", "n", "c", ".">>>>,
       <<"54:60:09", <<"G", "o", "o", "g", "l", "e", ",", " ", "I", "n", "c", ".">>>>,
       <<"30:FD:38", <<"G", "o", "o", "g", "l", "e", ",", " ", "I", "n", "c", ".">>>>,
       <<"48:D6:D5", <<"G", "o", "o", "g", "l", "e", ",", " ", "I", "n", "c", ".">>>>,
       <<"E4:F0:42", <<"G", "o", "o", "g", "l", "e", ",", " ", "I", "n", "c", ".">>>>,
       <<"6C:AD:F8", <<"G", "o", "o", "g", "l", "e", ",", " ", "I", "n", "c", ".">>>>,
       <<"44:65:0D", <<"A", "m", "a", "z", "o", "n", " ", "T", "e", "c", "h", "n", "o", "l", "o", "g", "i", "e", "s", " ", "I", "n", "c", ".">>>>,
       <<"68:54:FD", <<"A", "m", "a", "z", "o", "n", " ", "T", "e", "c", "h", "n", "o", "l", "o", "g", "i", "e", "s", " ", "I", "n", "c", ".">>>>,
       <<"A0:02:DC", <<"A", "m", "a", "z", "o", "n", " ", "T", "e", "c", "h", "n", "o", "l", "o", "g", "i", "e", "s", " ", "I", "n", "c", ".">>>>,
       <<"FC:65:DE", <<"A", "m", "a", "z", "o", "n", " ", "T", "e", "c", "h", "n", "o", "l", "o", "g", "i", "e", "s", " ", "I", "n", "c", ".">>>>,
       <<"40:B4:CD", <<"A", "m", "a", "z", "o", "n", " ", "T", "e", "c", "h", "n", "o", "l", "o", "g", "i", "e", "s", " ", "I", "n", "c", ".">>>>,
       <<"74:C2:46", <<"A", "m", "a", "z", "o", "n", " ", "T", "e", "c", "h", "n", "o", "l", "o", "g", "i", "e", "s", " ", "I", "n", "c", ".">>>>,
       <<"84:D6:D0", <<"A", "m", "a", "z", "o", "n", " ", "T", "e", "c", "h", "n", "o", "l", "o", "g", "i", "e", "s", " ", "I", "n", "c", ".">>>>,
       <<"F0:F0:A4", <<"A", "m", "a", "z", "o", "n", " ", "T", "e", "c", "h", "n", "o", "l", "o", "g", "i", "e", "s", " ", "I", "n", "c", ".">>>>,
       <<"00:17:88", <<"P", "h", "i", "l", "i", "p", "s", " ", "L", "i", "g", "h", "t", "i", "n", "g", " ", "B", "V">>>>,
       <<"BC:30:D9", <<"A", "r", "c", "a", "d", "y", "a", "n", " ", "T", "e", "c", "h", "n", "o", "l", "o", "g", "y", " ", "C", "o", "r", "p", "o", "r", "a", "t", "i", "o", "n">>>>,
       <<"00:90:CC", <<"P", "l", "a", "n", "e", "x", " ", "C", "o", "m", "m", "u", "n", "i", "c", "a", "t", "i", "o", "n", "s", " ", "I", "n", "c", ".">>>>,
       <<"00:22:CF", <<"P", "L", "A", "N", "E", "X", " ", "C", "O", "M", "M", "U", "N", "I", "C", "A", "T", "I", "O", "N", "S", " ", "I", "N", "C", ".">>>>,
       <<"00:1C:B3", <<"A", "p", "p", "l", "e", ",", " ", "I", "n", "c", ".">>>>,
       <<"28:CF:DA", <<"A", "p", "p", "l", "e", ",", " ", "I", "n", "c", ".">>>>,
       <<"3C:06:30", <<"A", "p", "p", "l", "e", ",", " ", "I", "n", "c", ".">>>>,
       <<"D0:03:4B", <<"A", "p", "p", "l", "e", ",", " ", "I", "n", "c", ".">>>>,
       <<"F0:18:98", <<"A", "p", "p", "l", "e", ",", " ", "I", "n", "c", ".">>>>,
       <<"A4:83:E7", <<"A", "p", "p", "l", "e", ",", " ", "I", "n", "c", ".">>>>,
       <<"DC:A4:CA", <<"A", "p", "p", "l", "e", ",", " ", "I", "n", "c", ".">>>>,
       <<"F0:D4:F6", <<"A", "p", "p", "l", "e", ",", " ", "I", "n", "c", ".">>>>,
       <<"A8:66:7F", <<"A", "p", "p", "l", "e", ",", " ", "I", "n", "c", ".">>>>,
       <<"14:7D:DA", <<"A", "p", "p", "l", "e", ",", " ", "I", "n", "c", ".">>>>,
       <<"88:66:A5", <<"A", "p", "p", "l", "e", ",", " ", "I", "n", "c", ".">>>>,
       <<"8C:85:90", <<"A", "p", "p", "l", "e", ",", " ", "I", "n", "c", ".">>>>,
       <<"AC:BC:32", <<"A", "p", "p", "l", "e", ",", " ", "I", "n", "c", ".">>>>,
       <<"C8:69:CD", <<"A", "p", "p", "l", "e", ",", " ", "I", "n", "c", ".">>>>,
       <<"E0:B5:2D", <<"A", "p", "p", "l", "e", ",", " ", "I", "n", "c", ".">>>>,
       <<"F4:5C:89", <<"A", "p", "p", "l", "e", ",", " ", "I", "n", "c", ".">>>>,
       <<"10:DD:B1", <<"A", "p", "p", "l", "e", ",", " ", "I", "n", "c", ".">>>>,
       <<"1C:91:48", <<"A", "p", "p", "l", "e", ",", " ", "I", "n", "c", ".">>>>,
       <<"34:C0:59", <<"A", "p", "p", "l", "e", ",", " ", "I", "n", "c", ".">>>>,
       <<"40:A6:D9", <<"A", "p", "p", "l", "e", ",", " ", "I", "n", "c", ".">>>>,
       <<"48:A1:95", <<"A", "p", "p", "l", "e", ",", " ", "I", "n", "c", ".">>>>,
       <<"54:4E:90", <<"A", "p", "p", "l", "e", ",", " ", "I", "n", "c", ".">>>>,
       <<"60:03:08", <<"A", "p", "p", "l", "e", ",", " ", "I", "n", "c", ".">>>>,
       <<"6C:96:CF", <<"A", "p", "p", "l", "e", ",", " ", "I", "n", "c", ".">>>>,
       <<"70:DE:E2", <<"A", "p", "p", "l", "e", ",", " ", "I", "n", "c", ".">>>>,
       <<"78:7B:8A", <<"A", "p", "p", "l", "e", ",", " ", "I", "n", "c", ".">>>>,
       <<"7C:D1:C3", <<"A", "p", "p", "l", "e", ",", " ", "I", "n", "c", ".">>>>,
       <<"84:FC:FE", <<"A", "p", "p", "l", "e", ",", " ", "I", "n", "c", ".">>>>,
       <<"90:27:E4", <<"A", "p", "p", "l", "e", ",", " ", "I", "n", "c", ".">>>>,
       <<"98:01:A7", <<"A", "p", "p", "l", "e", ",", " ", "I", "n", "c", ".">>>>,
       <<"A0:99:9B", <<"A", "p", "p", "l", "e", ",", " ", "I", "n", "c", ".">>>>,
       <<"A4:B1:97", <<"A", "p", "p", "l", "e", ",", " ", "I", "n", "c", ".">>>>,
       <<"B0:34:95", <<"A", "p", "p", "l", "e", ",", " ", "I", "n", "c", ".">>>>,
       <<"BC:52:B7", <<"A", "p", "p", "l", "e", ",", " ", "I", "n", "c", ".">>>>,
       <<"C0:A5:3E", <<"A", "p", "p", "l", "e", ",", " ", "I", "n", "c", ".">>>>,
       <<"00:1A:8A", <<"S", "a", "m", "s", "u", "n", "g", " ", "E", "l", "e", "c", "t", "r", "o", "n", "i", "c", "s", " ", "C", "o", ".", ",", "L", "t", "d">>>>,
       <<"00:21:19", <<"S", "a", "m", "s", "u", "n", "g", " ", "E", "l", "e", "c", "t", "r", "o", "n", "i", "c", "s", " ", "C", "o", ".", ",", "L", "t", "d">>>>,
       <<"8C:F5:A3", <<"S", "a", "m", "s", "u", "n", "g", " ", "E", "l", "e", "c", "t", "r", "o", "n", "i", "c", "s", " ", "C", "o", ".", ",", "L", "t", "d">>>>,
       <<"AC:5F:3E", <<"S", "a", "m", "s", "u", "n", "g", " ", "E", "l", "e", "c", "t", "r", "o", "n", "i", "c", "s", " ", "C", "o", ".", ",", "L", "t", "d">>>>,
       <<"C0:97:27", <<"S", "a", "m", "s", "u", "n", "g", " ", "E", "l", "e", "c", "t", "r", "o", "n", "i", "c", "s", " ", "C", "o", ".", ",", "L", "t", "d">>>>,
       <<"5C:3A:45", <<"S", "a", "m", "s", "u", "n", "g", " ", "E", "l", "e", "c", "t", "r", "o", "n", "i", "c", "s", " ", "C", "o", ".", ",", "L", "t", "d">>>>,
       <<"10:D5:42", <<"S", "a", "m", "s", "u", "n", "g", " ", "E", "l", "e", "c", "t", "r", "o", "n", "i", "c", "s", " ", "C", "o", ".", ",", "L", "t", "d">>>>,
       <<"78:47:1D", <<"S", "a", "m", "s", "u", "n", "g", " ", "E", "l", "e", "c", "t", "r", "o", "n", "i", "c", "s", " ", "C", "o", ".", ",", "L", "t", "d">>>>,
       <<"D0:22:BE", <<"S", "a", "m", "s", "u", "n", "g", " ", "E", "l", "e", "c", "t", "r", "o", "n", "i", "c", "s", " ", "C", "o", ".", ",", "L", "t", "d">>>>,
       <<"E4:7C:F9", <<"S", "a", "m", "s", "u", "n", "g", " ", "E", "l", "e", "c", "t", "r", "o", "n", "i", "c", "s", " ", "C", "o", ".", ",", "L", "t", "d">>>>,
       <<"34:14:5F", <<"S", "a", "m", "s", "u", "n", "g", " ", "E", "l", "e", "c", "t", "r", "o", "n", "i", "c", "s", " ", "C", "o", ".", ",", "L", "t", "d">>>>,
       <<"90:18:7C", <<"S", "a", "m", "s", "u", "n", "g", " ", "E", "l", "e", "c", "t", "r", "o", "n", "i", "c", "s", " ", "C", "o", ".", ",", "L", "t", "d">>>>,
       <<"A8:9F:BA", <<"S", "a", "m", "s", "u", "n", "g", " ", "E", "l", "e", "c", "t", "r", "o", "n", "i", "c", "s", " ", "C", "o", ".", ",", "L", "t", "d">>>>,
       <<"B4:3A:28", <<"S", "a", "m", "s", "u", "n", "g", " ", "E", "l", "e", "c", "t", "r", "o", "n", "i", "c", "s", " ", "C", "o", ".", ",", "L", "t", "d">>>>,
       <<"C4:73:1E", <<"S", "a", "m", "s", "u", "n", "g", " ", "E", "l", "e", "c", "t", "r", "o", "n", "i", "c", "s", " ", "C", "o", ".", ",", "L", "t", "d">>>>,
       <<"FC:A8:9A", <<"S", "a", "m", "s", "u", "n", "g", " ", "E", "l", "e", "c", "t", "r", "o", "n", "i", "c", "s", " ", "C", "o", ".", ",", "L", "t", "d">>>>,
       <<"14:49:E0", <<"S", "a", "m", "s", "u", "n", "g", " ", "E", "l", "e", "c", "t", "r", "o", "n", "i", "c", "s", " ", "C", "o", ".", ",", "L", "t", "d">>>>,
       <<"1C:AF:05", <<"S", "a", "m", "s", "u", "n", "g", " ", "E", "l", "e", "c", "t", "r", "o", "n", "i", "c", "s", " ", "C", "o", ".", ",", "L", "t", "d">>>>,
       <<"30:07:4D", <<"S", "a", "m", "s", "u", "n", "g", " ", "E", "l", "e", "c", "t", "r", "o", "n", "i", "c", "s", " ", "C", "o", ".", ",", "L", "t", "d">>>>,
       <<"40:4E:36", <<"S", "a", "m", "s", "u", "n", "g", " ", "E", "l", "e", "c", "t", "r", "o", "n", "i", "c", "s", " ", "C", "o", ".", ",", "L", "t", "d">>>>,
       <<"58:C3:8B", <<"S", "a", "m", "s", "u", "n", "g", " ", "E", "l", "e", "c", "t", "r", "o", "n", "i", "c", "s", " ", "C", "o", ".", ",", "L", "t", "d">>>>,
       <<"6C:C7:EC", <<"S", "a", "m", "s", "u", "n", "g", " ", "E", "l", "e", "c", "t", "r", "o", "n", "i", "c", "s", " ", "C", "o", ".", ",", "L", "t", "d">>>>,
       <<"84:25:DB", <<"S", "a", "m", "s", "u", "n", "g", " ", "E", "l", "e", "c", "t", "r", "o", "n", "i", "c", "s", " ", "C", "o", ".", ",", "L", "t", "d">>>>,
       <<"98:83:89", <<"S", "a", "m", "s", "u", "n", "g", " ", "E", "l", "e", "c", "t", "r", "o", "n", "i", "c", "s", " ", "C", "o", ".", ",", "L", "t", "d">>>>,
       <<"BC:14:EF", <<"S", "a", "m", "s", "u", "n", "g", " ", "E", "l", "e", "c", "t", "r", "o", "n", "i", "c", "s", " ", "C", "o", ".", ",", "L", "t", "d">>>>,
       <<"CC:07:AB", <<"S", "a", "m", "s", "u", "n", "g", " ", "E", "l", "e", "c", "t", "r", "o", "n", "i", "c", "s", " ", "C", "o", ".", ",", "L", "t", "d">>>>,
       <<"E8:E5:D6", <<"S", "a", "m", "s", "u", "n", "g", " ", "E", "l", "e", "c", "t", "r", "o", "n", "i", "c", "s", " ", "C", "o", ".", ",", "L", "t", "d">>>>,
       <<"F8:04:2E", <<"S", "a", "m", "s", "u", "n", "g", " ", "E", "l", "e", "c", "t", "r", "o", "n", "i", "c", "s", " ", "C", "o", ".", ",", "L", "t", "d">>>>,
       <<"28:6C:07", <<"X", "i", "a", "o", "m", "i", " ", "C", "o", "m", "m", "u", "n", "i", "c", "a", "t", "i", "o", "n", "s", " ", "C", "o", " ", "L", "t", "d">>>>,
       <<"64:CC:2E", <<"X", "i", "a", "o", "m", "i", " ", "C", "o", "m", "m", "u", "n", "i", "c", "a", "t", "i", "o", "n", "s", " ", "C", "o", " ", "L", "t", "d">>>>,
       <<"7C:1D:D9", <<"X", "i", "a", "o", "m", "i", " ", "C", "o", "m", "m", "u", "n", "i", "c", "a", "t", "i", "o", "n", "s", " ", "C", "o", " ", "L", "t", "d">>>>,
       <<"0C:1D:AF", <<"X", "i", "a", "o", "m", "i", " ", "C", "o", "m", "m", "u", "n", "i", "c", "a", "t", "i", "o", "n", "s", " ", "C", "o", " ", "L", "t", "d">>>>,
       <<"34:80:B3", <<"X", "i", "a", "o", "m", "i", " ", "C", "o", "m", "m", "u", "n", "i", "c", "a", "t", "i", "o", "n", "s", " ", "C", "o", " ", "L", "t", "d">>>>,
       <<"50:64:2B", <<"X", "i", "a", "o", "m", "i", " ", "C", "o", "m", "m", "u", "n", "i", "c", "a", "t", "i", "o", "n", "s", " ", "C", "o", " ", "L", "t", "d">>>>,
       <<"78:11:DC", <<"X", "i", "a", "o", "m", "i", " ", "C", "o", "m", "m", "u", "n", "i", "c", "a", "t", "i", "o", "n", "s", " ", "C", "o", " ", "L", "t", "d">>>>,
       <<"8C:DE:F9", <<"X", "i", "a", "o", "m", "i", " ", "C", "o", "m", "m", "u", "n", "i", "c", "a", "t", "i", "o", "n", "s", " ", "C", "o", " ", "L", "t", "d">>>>,
       <<"A4:77:58", <<"X", "i", "a", "o", "m", "i", " ", "C", "o", "m", "m", "u", "n", "i", "c", "a", "t", "i", "o", "n", "s", " ", "C", "o", " ", "L", "t", "d">>>>,
       <<"B0:E2:35", <<"X", "i", "a", "o", "m", "i", " ", "C", "o", "m", "m", "u", "n", "i", "c", "a", "t", "i", "o", "n", "s", " ", "C", "o", " ", "L", "t", "d">>>>,
       <<"C4:0B:CB", <<"X", "i", "a", "o", "m", "i", " ", "C", "o", "m", "m", "u", "n", "i", "c", "a", "t", "i", "o", "n", "s", " ", "C", "o", " ", "L", "t", "d">>>>,
       <<"DC:D8:7D", <<"X", "i", "a", "o", "m", "i", " ", "C", "o", "m", "m", "u", "n", "i", "c", "a", "t", "i", "o", "n", "s", " ", "C", "o", " ", "L", "t", "d">>>>,
       <<"F0:B4:29", <<"X", "i", "a", "o", "m", "i", " ", "C", "o", "m", "m", "u", "n", "i", "c", "a", "t", "i", "o", "n", "s", " ", "C", "o", " ", "L", "t", "d">>>>,
       <<"18:59:36", <<"X", "i", "a", "o", "m", "i", " ", "C", "o", "m", "m", "u", "n", "i", "c", "a", "t", "i", "o", "n", "s", " ", "C", "o", " ", "L", "t", "d">>>>,
       <<"58:44:98", <<"X", "i", "a", "o", "m", "i", " ", "C", "o", "m", "m", "u", "n", "i", "c", "a", "t", "i", "o", "n", "s", " ", "C", "o", " ", "L", "t", "d">>>>,
       <<"00:E0:FC", <<"H", "u", "a", "w", "e", "i", " ", "T", "e", "c", "h", "n", "o", "l", "o", "g", "i", "e", "s", " ", "C", "o", ".", ",", "L", "t", "d">>>>,
       <<"04:F9:38", <<"H", "u", "a", "w", "e", "i", " ", "T", "e", "c", "h", "n", "o", "l", "o", "g", "i", "e", "s", " ", "C", "o", ".", ",", "L", "t", "d">>>>,
       <<"20:F3:A3", <<"H", "u", "a", "w", "e", "i", " ", "T", "e", "c", "h", "n", "o", "l", "o", "g", "i", "e", "s", " ", "C", "o", ".", ",", "L", "t", "d">>>>,
       <<"48:46:FB", <<"H", "u", "a", "w", "e", "i", " ", "T", "e", "c", "h", "n", "o", "l", "o", "g", "i", "e", "s", " ", "C", "o", ".", ",", "L", "t", "d">>>>,
       <<"70:72:3C", <<"H", "u", "a", "w", "e", "i", " ", "T", "e", "c", "h", "n", "o", "l", "o", "g", "i", "e", "s", " ", "C", "o", ".", ",", "L", "t", "d">>>>,
       <<"88:28:B3", <<"H", "u", "a", "w", "e", "i", " ", "T", "e", "c", "h", "n", "o", "l", "o", "g", "i", "e", "s", " ", "C", "o", ".", ",", "L", "t", "d">>>>,
       <<"AC:61:75", <<"H", "u", "a", "w", "e", "i", " ", "T", "e", "c", "h", "n", "o", "l", "o", "g", "i", "e", "s", " ", "C", "o", ".", ",", "L", "t", "d">>>>,
       <<"C8:D1:5E", <<"H", "u", "a", "w", "e", "i", " ", "T", "e", "c", "h", "n", "o", "l", "o", "g", "i", "e", "s", " ", "C", "o", ".", ",", "L", "t", "d">>>>,
       <<"E0:24:7F", <<"H", "u", "a", "w", "e", "i", " ", "T", "e", "c", "h", "n", "o", "l", "o", "g", "i", "e", "s", " ", "C", "o", ".", ",", "L", "t", "d">>>>,
       <<"EC:CB:30", <<"H", "u", "a", "w", "e", "i", " ", "T", "e", "c", "h", "n", "o", "l", "o", "g", "i", "e", "s", " ", "C", "o", ".", ",", "L", "t", "d">>>>,
       <<"14:30:04", <<"H", "u", "a", "w", "e", "i", " ", "T", "e", "c", "h", "n", "o", "l", "o", "g", "i", "e", "s", " ", "C", "o", ".", ",", "L", "t", "d">>>>,
       <<"24:44:27", <<"H", "u", "a", "w", "e", "i", " ", "T", "e", "c", "h", "n", "o", "l", "o", "g", "i", "e", "s", " ", "C", "o", ".", ",", "L", "t", "d">>>>,
       <<"3C:47:11", <<"H", "u", "a", "w", "e", "i", " ", "T", "e", "c", "h", "n", "o", "l", "o", "g", "i", "e", "s", " ", "C", "o", ".", ",", "L", "t", "d">>>>,
       <<"54:A5:1B", <<"H", "u", "a", "w", "e", "i", " ", "T", "e", "c", "h", "n", "o", "l", "o", "g", "i", "e", "s", " ", "C", "o", ".", ",", "L", "t", "d">>>>,
       <<"78:F5:57", <<"H", "u", "a", "w", "e", "i", " ", "T", "e", "c", "h", "n", "o", "l", "o", "g", "i", "e", "s", " ", "C", "o", ".", ",", "L", "t", "d">>>>,
       <<"00:1F:E4", <<"S", "o", "n", "y", " ", "C", "o", "r", "p", "o", "r", "a", "t", "i", "o", "n">>>>,
       <<"00:13:A9", <<"S", "o", "n", "y", " ", "C", "o", "r", "p", "o", "r", "a", "t", "i", "o", "n">>>>,
       <<"00:24:BE", <<"S", "o", "n", "y", " ", "C", "o", "r", "p", "o", "r", "a", "t", "i", "o", "n">>>>,
       <<"04:5D:4B", <<"S", "o", "n", "y", " ", "C", "o", "r", "p", "o", "r", "a", "t", "i", "o", "n">>>>,
       <<"28:3F:69", <<"S", "o", "n", "y", " ", "C", "o", "r", "p", "o", "r", "a", "t", "i", "o", "n">>>>,
       <<"40:B8:37", <<"S", "o", "n", "y", " ", "C", "o", "r", "p", "o", "r", "a", "t", "i", "o", "n">>>>,
       <<"78:84:3C", <<"S", "o", "n", "y", " ", "C", "o", "r", "p", "o", "r", "a", "t", "i", "o", "n">>>>,
       <<"AC:9B:0A", <<"S", "o", "n", "y", " ", "C", "o", "r", "p", "o", "r", "a", "t", "i", "o", "n">>>>,
       <<"B4:52:7E", <<"S", "o", "n", "y", " ", "C", "o", "r", "p", "o", "r", "a", "t", "i", "o", "n">>>>,
       <<"FC:0F:E6", <<"S", "o", "n", "y", " ", "C", "o", "r", "p", "o", "r", "a", "t", "i", "o", "n">>>>,
       <<"3C:77:E6", <<"O", "P", "P", "O", " ", "D", "i", "g", "i", "t", "a", "l", ",", " ", "I", "n", "c", ".">>>>,
       <<"54:A0:50", <<"O", "P", "P", "O", " ", "D", "i", "g", "i", "t", "a", "l", ",", " ", "I", "n", "c", ".">>>>,
       <<"A4:3D:78", <<"O", "P", "P", "O", " ", "D", "i", "g", "i", "t", "a", "l", ",", " ", "I", "n", "c", ".">>>>,
       <<"CC:2D:83", <<"O", "P", "P", "O", " ", "D", "i", "g", "i", "t", "a", "l", ",", " ", "I", "n", "c", ".">>>>,
       <<"E8:BB:A8", <<"O", "P", "P", "O", " ", "D", "i", "g", "i", "t", "a", "l", ",", " ", "I", "n", "c", ".">>>>,
       <<"74:A5:28", <<"O", "P", "P", "O", " ", "D", "i", "g", "i", "t", "a", "l", ",", " ", "I", "n", "c", ".">>>>,
       <<"90:6C:AC", <<"O", "P", "P", "O", " ", "D", "i", "g", "i", "t", "a", "l", ",", " ", "I", "n", "c", ".">>>>,
       <<"18:D7:17", <<"O", "P", "P", "O", " ", "D", "i", "g", "i", "t", "a", "l", ",", " ", "I", "n", "c", ".">>>>,
       <<"00:1A:92", <<"A", "S", "U", "S", "T", "e", "k", " ", "C", "O", "M", "P", "U", "T", "E", "R", " ", "I", "N", "C", ".">>>>,
       <<"1C:87:2C", <<"A", "S", "U", "S", "T", "e", "k", " ", "C", "O", "M", "P", "U", "T", "E", "R", " ", "I", "N", "C", ".">>>>,
       <<"2C:56:DC", <<"A", "S", "U", "S", "T", "e", "k", " ", "C", "O", "M", "P", "U", "T", "E", "R", " ", "I", "N", "C", ".">>>>,
       <<"54:04:A6", <<"A", "S", "U", "S", "T", "e", "k", " ", "C", "O", "M", "P", "U", "T", "E", "R", " ", "I", "N", "C", ".">>>>,
       <<"AC:9E:17", <<"A", "S", "U", "S", "T", "e", "k", " ", "C", "O", "M", "P", "U", "T", "E", "R", " ", "I", "N", "C", ".">>>>,
       <<"D8:50:E6", <<"A", "S", "U", "S", "T", "e", "k", " ", "C", "O", "M", "P", "U", "T", "E", "R", " ", "I", "N", "C", ".">>>>,
       <<"00:0B:A2", <<"N", "E", "C", " ", "C", "o", "r", "p", "o", "r", "a", "t", "i", "o", "n">>>>,
       <<"00:30:13", <<"N", "E", "C", " ", "C", "o", "r", "p", "o", "r", "a", "t", "i", "o", "n">>>>,
       <<"00:70:4C", <<"N", "E", "C", " ", "C", "o", "r", "p", "o", "r", "a", "t", "i", "o", "n">>>>,
       <<"00:14:6C", <<"N", "E", "T", "G", "E", "A", "R">>>>,
       <<"00:1F:33", <<"N", "E", "T", "G", "E", "A", "R">>>>,
       <<"20:E5:2A", <<"N", "E", "T", "G", "E", "A", "R">>>>,
       <<"44:94:FC", <<"N", "E", "T", "G", "E", "A", "R">>>>,
       <<"6C:B0:CE", <<"N", "E", "T", "G", "E", "A", "R">>>>,
       <<"B0:7F:B9", <<"N", "E", "T", "G", "E", "A", "R">>>>,
       <<"C4:04:15", <<"N", "E", "T", "G", "E", "A", "R">>>>,
       <<"B8:27:EB", <<"R", "a", "s", "p", "b", "e", "r", "r", "y", " ", "P", "i", " ", "F", "o", "u", "n", "d", "a", "t", "i", "o", "n">>>>,
       <<"DC:A6:32", <<"R", "a", "s", "p", "b", "e", "r", "r", "y", " ", "P", "i", " ", "F", "o", "u", "n", "d", "a", "t", "i", "o", "n">>>>,
       <<"E4:5F:01", <<"R", "a", "s", "p", "b", "e", "r", "r", "y", " ", "P", "i", " ", "F", "o", "u", "n", "d", "a", "t", "i", "o", "n">>>>,
       <<"24:0A:C4", <<"E", "s", "p", "r", "e", "s", "s", "i", "f", " ", "I", "n", "c", ".">>>>,
       <<"30:AE:A4", <<"E", "s", "p", "r", "e", "s", "s", "i", "f", " ", "I", "n", "c", ".">>>>,
       <<"A4:CF:12", <<"E", "s", "p", "r", "e", "s", "s", "i", "f", " ", "I", "n", "c", ".">>>>,
       <<"CC:50:E3", <<"E", "s", "p", "r", "e", "s", "s", "i", "f", " ", "I", "n", "c", ".">>>>,
       <<"84:CC:A8", <<"E", "s", "p", "r", "e", "s", "s", "i", "f", " ", "I", "n", "c", ".">>>>,
       <<"00:1C:62", <<"L", "G", " ", "E", "l", "e", "c", "t", "r", "o", "n", "i", "c", "s">>>>,
       <<"10:68:3F", <<"L", "G", " ", "E", "l", "e", "c", "t", "r", "o", "n", "i", "c", "s">>>>,
       <<"2C:54:CF", <<"L", "G", " ", "E", "l", "e", "c", "t", "r", "o", "n", "i", "c", "s">>>>,
       <<"58:A2:B5", <<"L", "G", " ", "E", "l", "e", "c", "t", "r", "o", "n", "i", "c", "s">>>>,
       <<"A8:23:FE", <<"L", "G", " ", "E", "l", "e", "c", "t", "r", "o", "n", "i", "c", "s">>>>,
       <<"00:0E:6B", <<"P", "a", "n", "a", "s", "o", "n", "i", "c", " ", "C", "o", "r", "p", "o", "r", "a", "t", "i", "o", "n">>>>,
       <<"00:1B:52", <<"P", "a", "n", "a", "s", "o", "n", "i", "c", " ", "C", "o", "r", "p", "o", "r", "a", "t", "i", "o", "n">>>>,
       <<"10:5F:06", <<"P", "a", "n", "a", "s", "o", "n", "i", "c", " ", "C", "o", "r", "p", "o", "r", "a", "t", "i", "o", "n">>>>,
       <<"34:FC:EF", <<"P", "a", "n", "a", "s", "o", "n", "i", "c", " ", "C", "o", "r", "p", "o", "r", "a", "t", "i", "o", "n">>>>,
       <<"00:09:BF", <<"N", "i", "n", "t", "e", "n", "d", "o", " ", "C", "o", ".", ",", "L", "t", "d">>>>,
       <<"00:17:AB", <<"N", "i", "n", "t", "e", "n", "d", "o", " ", "C", "o", ".", ",", "L", "t", "d">>>>,
       <<"00:1E:35", <<"N", "i", "n", "t", "e", "n", "d", "o", " ", "C", "o", ".", ",", "L", "t", "d">>>>,
       <<"00:24:1E", <<"N", "i", "n", "t", "e", "n", "d", "o", " ", "C", "o", ".", ",", "L", "t", "d">>>>,
       <<"34:AF:2C", <<"N", "i", "n", "t", "e", "n", "d", "o", " ", "C", "o", ".", ",", "L", "t", "d">>>>,
       <<"58:BD:A3", <<"N", "i", "n", "t", "e", "n", "d", "o", " ", "C", "o", ".", ",", "L", "t", "d">>>>,
       <<"7C:BB:8A", <<"N", "i", "n", "t", "e", "n", "d", "o", " ", "C", "o", ".", ",", "L", "t", "d">>>>,
       <<"98:B6:E9", <<"N", "i", "n", "t", "e", "n", "d", "o", " ", "C", "o", ".", ",", "L", "t", "d">>>>,
       <<"E8:4E:CE", <<"N", "i", "n", "t", "e", "n", "d", "o", " ", "C", "o", ".", ",", "L", "t", "d">>>>,
       <<"28:18:78", <<"M", "i", "c", "r", "o", "s", "o", "f", "t", " ", "C", "o", "r", "p", "o", "r", "a", "t", "i", "o", "n">>>>,
       <<"60:45:BD", <<"M", "i", "c", "r", "o", "s", "o", "f", "t", " ", "C", "o", "r", "p", "o", "r", "a", "t", "i", "o", "n">>>>,
       <<"7C:1E:52", <<"M", "i", "c", "r", "o", "s", "o", "f", "t", " ", "C", "o", "r", "p", "o", "r", "a", "t", "i", "o", "n">>>>,
       <<"C8:3F:26", <<"M", "i", "c", "r", "o", "s", "o", "f", "t", " ", "C", "o", "r", "p", "o", "r", "a", "t", "i", "o", "n">>>>,
       <<"00:1E:64", <<"I", "n", "t", "e", "l", " ", "C", "o", "r", "p", "o", "r", "a", "t", "e">>>>,
       <<"3C:97:0E", <<"I", "n", "t", "e", "l", " ", "C", "o", "r", "p", "o", "r", "a", "t", "e">>>>,
       <<"68:05:CA", <<"I", "n", "t", "e", "l", " ", "C", "o", "r", "p", "o", "r", "a", "t", "e">>>>,
       <<"8C:EC:4B", <<"I", "n", "t", "e", "l", " ", "C", "o", "r", "p", "o", "r", "a", "t", "e">>>>,
       <<"C0:56:E3", <<"H", "a", "n", "g", "z", "h", "o", "u", " ", "H", "i", "k", "v", "i", "s", "i", "o", "n", " ", "D", "i", "g", "i", "t", "a", "l", " ", "T", "e", "c", "h", "n", "o", "l", "o", "g", "y">>>>,
       <<"44:19:B6", <<"H", "a", "n", "g", "z", "h", "o", "u", " ", "H", "i", "k", "v", "i", "s", "i", "o", "n", " ", "D", "i", "g", "i", "t", "a", "l", " ", "T", "e", "c", "h", "n", "o", "l", "o", "g", "y">>>>,
       <<"54:C4:15", <<"H", "a", "n", "g", "z", "h", "o", "u", " ", "H", "i", "k", "v", "i", "s", "i", "o", "n", " ", "D", "i", "g", "i", "t", "a", "l", " ", "T", "e", "c", "h", "n", "o", "l", "o", "g", "y">>>>,
       <<"3C:EF:8C", <<"Z", "h", "e", "j", "i", "a", "n", "g", " ", "D", "a", "h", "u", "a", " ", "T", "e", "c", "h", "n", "o", "l", "o", "g", "y", " ", "C", "o", ".", ",", " ", "L", "t", "d", ".">>>>,
       <<"A0:BD:CD", <<"Z", "h", "e", "j", "i", "a", "n", "g", " ", "D", "a", "h", "u", "a", " ", "T", "e", "c", "h", "n", "o", "l", "o", "g", "y", " ", "C", "o", ".", ",", " ", "L", "t", "d", ".">>>>,
       <<"00:0E:58", <<"S", "o", "n", "o", "s", ",", " ", "I", "n", "c", ".">>>>,
       <<"34:7E:5C", <<"S", "o", "n", "o", "s", ",", " ", "I", "n", "c", ".">>>>,
       <<"48:A6:B8", <<"S", "o", "n", "o", "s", ",", " ", "I", "n", "c", ".">>>>,
       <<"78:28:CA", <<"S", "o", "n", "o", "s", ",", " ", "I", "n", "c", ".">>>>,
       <<"04:52:C7", <<"B", "o", "s", "e", " ", "C", "o", "r", "p", "o", "r", "a", "t", "i", "o", "n">>>>,
       <<"08:DF:1F", <<"B", "o", "s", "e", " ", "C", "o", "r", "p", "o", "r", "a", "t", "i", "o", "n">>>>,
       <<"00:1D:62", <<"E", "L", "E", "C", "O", "M", " ", "C", "O", ".", ",", "L", "T", "D", ".">>>>,
       <<"74:03:BD", <<"E", "L", "E", "C", "O", "M", " ", "C", "O", ".", ",", "L", "T", "D", ".">>>>,
       <<"C8:2E:47", <<"E", "L", "E", "C", "O", "M", " ", "C", "O", ".", ",", "L", "T", "D", ".">>>>,
       <<"94:65:2D", <<"O", "n", "e", "P", "l", "u", "s", " ", "T", "e", "c", "h", "n", "o", "l", "o", "g", "y", " ", "(", "S", "h", "e", "n", "z", "h", "e", "n", ")", " ", "C", "o", ".", ",", " ", "L", "t", "d">>>>,
       <<"C0:EE:40", <<"O", "n", "e", "P", "l", "u", "s", " ", "T", "e", "c", "h", "n", "o", "l", "o", "g", "y", " ", "(", "S", "h", "e", "n", "z", "h", "e", "n", ")", " ", "C", "o", ".", ",", " ", "L", "t", "d">>>>,
       <<"00:04:56", <<"M", "o", "t", "o", "r", "o", "l", "a", " ", "M", "o", "b", "i", "l", "i", "t", "y", " ", "L", "L", "C">>>>,
       <<"68:C4:4D", <<"M", "o", "t", "o", "r", "o", "l", "a", " ", "M", "o", "b", "i", "l", "i", "t", "y", " ", "L", "L", "C">>>>,
       <<"E8:65:D4", <<"M", "o", "t", "o", "r", "o", "l", "a", " ", "M", "o", "b", "i", "l", "i", "t", "y", " ", "L", "L", "C">>>> >>

ROUTER_VENDORS ==
    << <<"B", "u", "f", "f", "a", "l", "o">>,
       <<"T", "P", "-", "L", "I", "N", "K">>,
       <<"N", "e", "t", "g", "e", "a", "r">>,
       <<"A", "S", "U", "S">>,
       <<"E", "l", "e", "c", "o", "m">>,
       <<"N", "E", "C">>,
       <<"Y", "a", "m", "a", "h", "a">>,
       <<"I", "-", "O", " ", "D", "A", "T", "A">>,
       <<"P", "l", "a", "n", "e", "x">>,
       <<"C", "o", "r", "e", "g", "a">>,
       <<"A", "r", "c", "a", "d", "y", "a", "n">>,
       <<"N", "E", "T", "G", "E", "A", "R">> >>

CAMERA_VENDORS ==
    << <<"H", "i", "k", "v", "i", "s", "i", "o", "n">>,
       <<"D", "a", "h", "u", "a">>,
       <<"A", "x", "i", "s">>,
       <<"P", "a", "n", "a", "s", "o", "n", "i", "c">>,
       <<"W", "y", "z", "e">>,
       <<"R", "i", "n", "g">> >>

SMART_SPEAKER_VENDORS ==
    << <<"S", "o", "n", "o", "s">>,
       <<"B", "o", "s", "e">> >>

SMARTPHONE_VENDORS ==
    << <<"S", "a", "m", "s", "u", "n", "g">>,
       <<"X", "i", "a", "o", "m", "i">>,
       <<"H", "u", "a", "w", "e", "i">>,
       <<"O", "P", "P", "O">>,
       <<"O", "n", "e", "P", "l", "u", "s">>,
       <<"M", "o", "t", "o", "r", "o", "l", "a">> >>

SMART_TV_VENDORS ==
    << <<"L", "G", " ", "E", "l", "e", "c", "t", "r", "o", "n", "i", "c", "s">> >>

GAMING_VENDORS ==
    << <<"N", "i", "n", "t", "e", "n", "d", "o">>,
       <<"M", "i", "c", "r", "o", "s", "o", "f", "t">> >>

IOT_VENDORS ==
    << <<"R", "a", "s", "p", "b", "e", "r", "r", "y", " ", "P", "i">>,
       <<"E", "s", "p", "r", "e", "s", "s", "i", "f">> >>

SMARTPHONE_NAME_PATTERNS ==
    << <<"i", "p", "h", "o", "n", "e">>,
       <<"i", "p", "a", "d">>,
       <<"g", "a", "l", "a", "x", "y">>,
       <<"p", "i", "x", "e", "l">>,
       <<"a", "n", "d", "r", "o", "i", "d">>,
       <<"r", "e", "d", "m", "i">>,
       <<"x", "p", "e", "r", "i", "a">>,
       <<"h", "u", "a", "w", "e", "i">>,
       <<"o", "p", "p", "o">>,
       <<"o", "n", "e", "p", "l", "u", "s">>,
       <<"a", "q", "u", "o", "s">>,
       <<"a", "r", "r", "o", "w", "s">>,
       <<"m", "o", "t", "o", "r", "o", "l", "a">>,
       <<"m", "o", "t", "o", " ">>,
       <<"s", "m", "-">>,
       <<"g", "t", "-">>,
       <<"s", "c", "h", "-">>,
       <<"s", "g", "h", "-">> >>

TV_NAME_PATTERNS ==
    << <<"t", "v">>,
       <<"U+30C6", "U+30EC", "U+30D3">>,
       <<"b", "r", "a", "v", "i", "a">>,
       <<"v", "i", "e", "r", "a">>,
       <<"r", "e", "g", "z", "a">>,
       <<"a", "q", "u", "o", "s">> >>

COMPUTER_NAME_PATTERNS ==
    << <<"m", "a", "c", "b", "o", "o", "k">>,
       <<"i", "m", "a", "c">>,
       <<"m", "a", "c", "-", "m", "i", "n", "i">>,
       <<"d", "e", "s", "k", "t", "o", "p">>,
       <<"l", "a", "p", "t", "o", "p">>,
       <<"s", "u", "r", "f", "a", "c", "e">>,
       <<"t", "h", "i", "n", "k", "p", "a", "d">>,
       <<"d", "e", "l", "l">>,
       <<"h", "p", "-">>,
       <<"l", "e", "n", "o", "v", "o">> >>


\* ------------------------------------------------------------ data model

\* enum ScanLevel { Level1, Level2, Level3 }
ScanLevel == {"Level1", "Level2", "Level3"}

\* enum SecurityLevel { Safe, Warning, Danger, Unknown }
SecurityLevel == {"Safe", "Warning", "Danger", "Unknown"}

\* enum DeviceType
DeviceType ==
    {"Router", "Camera", "SmartSpeaker", "SmartTv", "SmartPlug", "Printer",
     "Nas", "Computer", "Smartphone", "Unknown"}

\* enum IssueSeverity
IssueSeverity == {"Info", "Low", "Medium", "High", "Critical"}

\* struct SecurityIssue; title, description and remediation are fixed
\* texts that nothing reads, and are left out.
SecurityIssue(id, severity) == [id |-> id, severity |-> severity]

\* ------------------------------------------------------- fingerprint.rs

\* the loop of lookup_vendor over OUI_DATABASE: the first entry whose OUI
\* equals prefix
FindVendor(prefix) ==
    LET hits == {k \in 1..Len(OUI_DATABASE) : prefix = OUI_DATABASE[k][1]}
    IN  IF hits = {} THEN None
        ELSE Some(OUI_DATABASE[CHOOSE k \in hits : \A j \in hits : k <= j][2])

\* pub fn lookup_vendor(mac: &str) -> Option<String>
lookup_vendor(mac) == FindVendor(Str(Take(ToUpper(mac), 8)))

\* PATTERNS.iter().any(|p| s.contains(p))
AnyContains(patterns, s) ==
    \E k \in 1..Len(patterns) : Contains(s, patterns[k])

\* the vendor rungs of identify_device_type
VendorType(vendor_str) ==
    IF AnyContains(ROUTER_VENDORS, vendor_str) THEN "Router"
    ELSE IF AnyContains(CAMERA_VENDORS, vendor_str) THEN "Camera"
    ELSE IF AnyContains(SMART_SPEAKER_VENDORS, vendor_str) THEN "SmartSpeaker"
    ELSE IF AnyContains(SMARTPHONE_VENDORS, vendor_str) THEN "Smartphone"
    ELSE IF AnyContains(SMART_TV_VENDORS, vendor_str) THEN "SmartTv"
    ELSE IF AnyContains(GAMING_VENDORS, vendor_str) THEN "SmartPlug"
    ELSE IF Contains(vendor_str, <<"A", "p", "p", "l", "e">>) THEN "Smartphone"
    ELSE IF Contains(vendor_str, <<"G", "o", "o", "g", "l", "e">>) THEN "SmartSpeaker"
    ELSE IF Contains(vendor_str, <<"A", "m", "a", "z", "o", "n">>) THEN "SmartSpeaker"
    ELSE IF Contains(vendor_str, <<"S", "o", "n", "y">>) THEN "SmartTv"
    ELSE IF AnyContains(IOT_VENDORS, vendor_str) THEN "SmartPlug"
    ELSE IF Contains(vendor_str, <<"I", "n", "t", "e", "l">>) THEN "Computer"
    ELSE "Unknown"

\* identify_device_type with the vendor rungs tried before the name rungs
identify_device_type_VendorFirst(mac, vendor, name) ==
    VendorType(IF IsSome(vendor) THEN Unwrap(vendor) ELSE <<>>)

\* pub fn identify_device_type(_mac, vendor, name) -> DeviceType
identify_device_type(mac, vendor, name) ==
    LET lower == ToLower(Unwrap(name))
        vendor_str == IF IsSome(vendor) THEN Unwrap(vendor) ELSE <<>>
    IN  IF IsSome(name) /\ AnyContains(SMARTPHONE_NAME_PATTERNS, lower)
        THEN "Smartphone"
        ELSE IF IsSome(name) /\ AnyContains(COMPUTER_NAME_PATTERNS, lower)
        THEN "Computer"
        ELSE IF IsSome(name) /\ AnyContains(TV_NAME_PATTERNS, lower)
        THEN "SmartTv"
        ELSE VendorType(vendor_str)

RECURSIVE RefineType_AnyType(_, _, _)
\* faulty variant of RefineType: port 554 sets Camera whatever the type is
RefineType_AnyType(device_type, open_ports, k) ==
    IF k > Len(open_ports) THEN device_type
    ELSE LET n == open_ports[k].number
             t == IF n = 554 THEN "Camera"
                  ELSE IF n = 631 /\ device_type = "Unknown" THEN "Printer"
                  ELSE device_type
         IN  RefineType_AnyType(t, open_ports, k + 1)

RECURSIVE RefineType(_, _, _)
\* the loop of identify_services over device.open_ports from entry k on
RefineType(device_type, open_ports, k) ==
    IF k > Len(open_ports) THEN device_type
    ELSE LET n == open_ports[k].number
             t == IF n = 554 /\ device_type = "Unknown" THEN "Camera"
                  ELSE IF n = 631 /\ device_type = "Unknown" THEN "Printer"
                  ELSE device_type
         IN  RefineType(t, open_ports, k + 1)

\* pub async fn identify_services(device: &mut Device)
identify_services(device) ==
    [device EXCEPT !.device_type = RefineType(device.device_type, device.open_ports, 1)]

\* -------------------------------------------------------------- ports.rs

\* const COMMON_PORTS
COMMON_PORTS ==
    <<21, 22, 23, 25, 53, 80, 443, 554, 1883, 1900, 5000, 5353, 8080, 8443,
      8883, 9000>>

\* fn identify_service(port: u16) -> &'static str
identify_service(port) ==
    CASE port = 21 -> "FTP"
      [] port = 22 -> "SSH"
      [] port = 23 -> "Telnet"
      [] port = 25 -> "SMTP"
      [] port = 53 -> "DNS"
      [] port = 80 -> "HTTP"
      [] port = 443 -> "HTTPS"
      [] port = 554 -> "RTSP"
      [] port = 1883 -> "MQTT"
      [] port = 1900 -> "UPnP"
      [] port = 5000 -> "UPnP"
      [] port = 5353 -> "mDNS"
      [] port = 8080 -> "HTTP"
      [] port = 8443 -> "HTTPS"
      [] port = 8883 -> "MQTT-TLS"
      [] OTHER -> "Unknown"

\* faulty variant of is_secure_service: MQTT over TLS is left out
is_secure_service_NoMqttTls(port) == port \in {22, 443, 8443}

\* fn is_secure_service(port: u16) -> bool
is_secure_service(port) == port \in {22, 443, 8443, 8883}

\* the Port the probe task of scan_ports builds for an open port
MakePort(port) ==
    [number |-> port, protocol |-> "tcp", service |-> Some(identify_service(port)),
     version |-> None, is_secure |-> is_secure_service(port)]

RECURSIVE CollectPorts(_, _)
\* the collection loop of scan_ports: the tasks are awaited in COMMON_PORTS
\* order; `open` is the set of ports whose task returned Some (a connect that
\* failed or timed out, or a task that panicked, is not in it)
CollectPorts(open, k) ==
    IF k > Len(COMMON_PORTS) THEN <<>>
    ELSE (IF COMMON_PORTS[k] \in open THEN <<MakePort(COMMON_PORTS[k])>> ELSE <<>>)
         \o CollectPorts(open, k + 1)

\* pub async fn scan_ports(ip: &str) -> Result<Vec<Port>, ScanError>: always Ok
scan_ports(open) == CollectPorts(open, 1)

\* ----------------------------------------------------- mod.rs: the scorer

\* async fn has_default_password(_device) -> bool
has_default_password(device) == FALSE

HasPort(device, n) ==
    \E k \in 1..Len(device.open_ports) : device.open_ports[k].number = n

\* faulty variant of check_vulnerabilities: the telnet check looks for port 22
check_vulnerabilities_TelnetOn22(device) ==
    [device EXCEPT !.issues =
        @ \o (IF has_default_password(device)
              THEN <<SecurityIssue("default-password", "Critical")>> ELSE <<>>)
          \o (IF HasPort(device, 22)
              THEN <<SecurityIssue("telnet-open", "High")>> ELSE <<>>)
          \o (IF HasPort(device, 1900)
              THEN <<SecurityIssue("upnp-enabled", "Medium")>> ELSE <<>>)]

\* async fn check_vulnerabilities(device: &mut Device)
check_vulnerabilities(device) ==
    [device EXCEPT !.issues =
        @ \o (IF has_default_password(device)
              THEN <<SecurityIssue("default-password", "Critical")>> ELSE <<>>)
          \o (IF HasPort(device, 23)
              THEN <<SecurityIssue("telnet-open", "High")>> ELSE <<>>)
          \o (IF HasPort(device, 1900)
              THEN <<SecurityIssue("upnp-enabled", "Medium")>> ELSE <<>>)]

\* faulty variant of SeverityPenalty: a Low issue costs nothing
SeverityPenalty_LowFree(severity) ==
    CASE severity = "Critical" -> 40
      [] severity = "High" -> 25
      [] severity = "Medium" -> 15
      [] severity = "Low" -> 0
      [] severity = "Info" -> 0

\* the match on issue.severity in calculate_security_score
SeverityPenalty(severity) ==
    CASE severity = "Critical" -> 40
      [] severity = "High" -> 25
      [] severity = "Medium" -> 15
      [] severity = "Low" -> 5
      [] severity = "Info" -> 0

RECURSIVE IssuePenalty(_, _)
IssuePenalty(issues, k) ==
    IF k > Len(issues) THEN 0
    ELSE SeverityPenalty(issues[k].severity) + IssuePenalty(issues, k + 1)

RECURSIVE PortPenalty(_, _)
PortPenalty(open_ports, k) ==
    IF k > Len(open_ports) THEN 0
    ELSE (IF open_ports[k].is_secure THEN 0 ELSE 5) + PortPenalty(open_ports, k + 1)

\* i32::clamp(lo, hi)
Clamp(v, lo, hi) == IF v < lo THEN lo ELSE IF v > hi THEN hi ELSE v

\* the match on device.security_score in calculate_security_score
LevelOfScore(score) ==
    IF score >= 80 /\ score <= 100 THEN "Safe"
    ELSE IF score >= 50 /\ score <= 79 THEN "Warning"
    ELSE "Danger"

\* faulty variant of calculate_security_score: the Safe arm written 81..=100
calculate_security_score_SafeFrom81(device) ==
    LET score == 100 - IssuePenalty(device.issues, 1)
                     - PortPenalty(device.open_ports, 1)
        clamped == Clamp(score, 0, 100)
    IN  [device EXCEPT !.security_score = clamped,
                       !.security_level =
                           IF clamped >= 81 /\ clamped <= 100 THEN "Safe"
                           ELSE IF clamped >= 50 /\ clamped <= 79 THEN "Warning"
                           ELSE "Danger"]

\* faulty variant of calculate_security_score: a device with no issue and no
\* open port keeps the level it was built with
calculate_security_score_KeepUnknown(device) ==
    LET score == 100 - IssuePenalty(device.issues, 1)
                     - PortPenalty(device.open_ports, 1)
        clamped == Clamp(score, 0, 100)
    IN  [device EXCEPT !.security_score = clamped,
                       !.security_level =
                           IF device.issues = <<>> /\ device.open_ports = <<>>
                           THEN device.security_level
                           ELSE LevelOfScore(clamped)]

\* fn calculate_security_score(device: &mut Device)
calculate_security_score(device) ==
    LET score == 100 - IssuePenalty(device.issues, 1)
                     - PortPenalty(device.open_ports, 1)
        clamped == Clamp(score, 0, 100)
    IN  [device EXCEPT !.security_score = clamped,
                       !.security_level = LevelOfScore(clamped)]

\* ---------------------------------------------------------------- arp.rs

\* the literal "00:00:00:00:00:00" of parse_arp_table
ZeroMac ==
    <<"0", "0", ":", "0", "0", ":", "0", "0", ":", "0", "0", ":", "0", "0", ":",
      "0", "0">>

RECURSIVE ParseArpLines(_)
\* the while loop of parse_arp_table; a line is the sequence of its
\* whitespace-separated fields (line.split_whitespace())
ParseArpLines(lines) ==
    IF lines = <<>> THEN <<>>
    ELSE LET parts == Head(lines)
         IN  (IF Len(parts) < 6 THEN <<>>
              ELSE IF parts[4] # ZeroMac THEN << <<parts[1], parts[4]>> >>
              ELSE <<>>)
             \o ParseArpLines(Tail(lines))

\* parse_arp_table without `let _ = lines.next_line().await`
parse_arp_table_KeepHeader(table) == ParseArpLines(table)

\* async fn parse_arp_table(), the file opened: the first line is dropped
parse_arp_table(table) ==
    IF table = <<>> THEN <<>> ELSE ParseArpLines(Tail(table))

\* ------------------------------------------------------- the environment

\* number of data lines of the ARP table read by one scan
MaxArpLines == 2

Ip1 == "192.168.1.1"
Ip2 == "192.168.1.2"

\* textual IPv4 addresses of the modelled segment
Ips == {Ip1, Ip2}

\* ip.parse::<std::net::IpAddr>().is_ok()
IpParses(ip) == ip \in Ips

\* b8:27:eb:00:00:01 as /proc/net/arp prints it (lowercase): a Raspberry Pi
MacPi ==
    <<"b", "8", ":", "2", "7", ":", "e", "b", ":", "0", "0", ":", "0", "0", ":",
      "0", "1">>

\* DE:AD:BE:EF:00:02, an address whose OUI is not in OUI_DATABASE
MacOther ==
    <<"D", "E", ":", "A", "D", ":", "B", "E", ":", "E", "F", ":", "0", "0", ":",
      "0", "2">>

\* the (IP, HW address) entries the kernel may list; the last is incomplete
ArpEntries == {<<Ip1, MacPi>>, <<Ip2, MacOther>>, <<Ip2, ZeroMac>>}

\* the interfaces an entry may be listed on
ArpInterfaces == {"eth0", "wlan0"}

\* first line of /proc/net/arp, split at whitespace
ArpHeader ==
    <<"IP", "address", "HW", <<"t", "y", "p", "e">>, "Flags", "HW", "address",
      "Mask", "Device">>

\* a data line, split at whitespace, and a line cut short of six fields
ArpLines ==
    {<<e[1], "0x1", "0x2", e[2], "*", d>> : e \in ArpEntries, d \in ArpInterfaces}
    \cup {<<Ip1, "0x1", "0x0">>}

RECURSIVE SeqsUpTo(_, _)
\* the sequences over S of length at most n
SeqsUpTo(S, n) ==
    IF n = 0 THEN {<<>>}
    ELSE LET shorter == SeqsUpTo(S, n - 1)
         IN  shorter \cup {Append(s, x) : s \in shorter, x \in S}

\* the contents /proc/net/arp may have when it is read
ArpTables == {<<ArpHeader>> \o body : body \in SeqsUpTo(ArpLines, MaxArpLines)}

\* the name each source reports for a host that answers it
NameMdns == <<"i", "P", "h", "o", "n", "e">>
NameNbns == <<"D", "E", "S", "K", "T", "O", "P", "-", "1">>
NameSsdp == <<"H", "u", "e", " ", "B", "r", "i", "d", "g", "e">>
NameDns == <<"t", "v", ".", "l", "a", "n">>

\* the maps IP -> name in which the hosts of a subset of `ips` carry `name`
NameMaps(ips, name) == {[ip \in S |-> name] : S \in SUBSET ips}

\* the sets of ports a probed host may accept connections on
OpenSets == {{}, {23, 80}, {22, 1900}, {23, 80, 1900}}

\* -------------------------------------------------- mod.rs: scan_network

VARIABLES
    level,        \* the ScanLevel argument of scan_network
    pc,           \* position of scan_network
    progress,     \* progress values emitted on "scan-progress", in order
    result,       \* the Result scan_network returned
    sweeper,      \* position of arp::discover_devices
    sweepErr,     \* the ScanError kind discover_devices failed with
    discovered,   \* the (ip, mac) pairs discover_devices returned
    mdns,         \* position of the blocking task running mdns::scan_mdns
    mdns_map,     \* the map scan_mdns returned
    ssdp,         \* position of ssdp::scan_ssdp
    ssdp_names,   \* the map scan_ssdp returned
    nbns_names,   \* the map nbns::scan_nbns returned
    nbnsQueried,  \* IPs an NBNS query was issued for
    dnsAnswers,   \* the answers of the dns_lookup::lookup_addr calls issued, in order
    devices,      \* the Vec<Device> under construction
    portIdx,      \* number of devices whose ports were scanned
    \* a function of the scanner called on its own
    fn,           \* the function called, "" when none is
    arg,          \* its arguments
    out,          \* what it returned, NotCalled before the call
    \* the chunked probe loops of discover_devices and scan_nbns
    chunkOf,      \* "ping" or "nbns": the loop that runs, "" when none does
    targets,      \* ips.len()
    done,         \* addresses of the chunks already left behind
    spawned,      \* tasks of the current chunk pushed to `tasks`
    running,      \* tasks of the current chunk not yet finished
    stale,        \* unfinished tasks of chunks already left behind
    bpc,          \* position of the loop
    \* scan_ssdp from its first recv_from on
    collector,    \* position of scan_ssdp
    responses,    \* the (source ip, response) datagrams received, in order
    location_map, \* HashMap<ip, LOCATION url>
    device_names, \* HashMap<ip, friendlyName> returned
    \* the database
    db,           \* the process-wide handle DB: "unset" or "open"
    scans,        \* the rows of table scans, in rowid order
    device_rows,  \* the rows of table devices, in rowid order
    dbCall        \* the last database function called, with its argument and result

scanVars ==
    <<level, pc, progress, result, sweeper, sweepErr, discovered, mdns,
      mdns_map, ssdp, ssdp_names, nbns_names, nbnsQueried, dnsAnswers,
      devices, portIdx>>

callVars == <<fn, arg, out>>

chunkVars == <<chunkOf, targets, done, spawned, running, stale, bpc>>

collectVars == <<collector, responses, location_map, device_names>>

storeVars == <<db, scans, device_rows, dbCall>>

\* everything outside scan_network's own state
unitVars == <<callVars, chunkVars, collectVars, storeVars>>

vars == <<scanVars, unitVars>>

NotCalled == [tag |-> "NotCalled"]

\* no function is being called on its own
CallIdle == fn = "" /\ arg = <<>> /\ out = NotCalled

\* no chunked loop runs
ChunkIdle ==
    /\ chunkOf = ""
    /\ targets = 0
    /\ done = 0
    /\ spawned = 0
    /\ running = 0
    /\ stale = 0
    /\ bpc = "idle"

\* scan_ssdp is not being followed datagram by datagram
CollectIdle ==
    /\ collector = "idle"
    /\ responses = <<>>
    /\ location_map = <<>>
    /\ device_names = <<>>

\* database::init has not run and the database file holds no row
StoreIdle ==
    /\ db = "unset"
    /\ scans = <<>>
    /\ device_rows = <<>>
    /\ dbCall = NotCalled

EmptyMap == [ip \in {} |-> <<>>]

Pending == [tag |-> "Pending", kind |-> "", value |-> None]
Ok(v) == [tag |-> "Ok", kind |-> "", value |-> Some(v)]
Err(kind) == [tag |-> "Err", kind |-> kind, value |-> None]

Init ==
    /\ level \in ScanLevel
    /\ pc = "init"
    /\ progress = <<>>
    /\ result = Pending
    /\ sweeper = "idle"
    /\ sweepErr = ""
    /\ discovered = <<>>
    /\ mdns = "idle"
    /\ mdns_map = EmptyMap
    /\ ssdp = "idle"
    /\ ssdp_names = EmptyMap
    /\ nbns_names = EmptyMap
    /\ nbnsQueried = {}
    /\ dnsAnswers = <<>>
    /\ devices = <<>>
    /\ portIdx = 0
    /\ CallIdle
    /\ ChunkIdle
    /\ CollectIdle
    /\ StoreIdle

\* scan_network is not running: the state the other specifications keep it in
ScanIdle ==
    /\ level = "Level1"
    /\ pc = "init"
    /\ progress = <<>>
    /\ result = Pending
    /\ sweeper = "idle"
    /\ sweepErr = ""
    /\ discovered = <<>>
    /\ mdns = "idle"
    /\ mdns_map = EmptyMap
    /\ ssdp = "idle"
    /\ ssdp_names = EmptyMap
    /\ nbns_names = EmptyMap
    /\ nbnsQueried = {}
    /\ dnsAnswers = <<>>
    /\ devices = <<>>
    /\ portIdx = 0

\* fn emit_progress(app, phase, progress); the emit's own result is dropped
emit_progress(log, value) == Append(log, value)

\* scan_network up to the tokio::join!: emits 0 and 10, starts the three
\* futures of phase 1
Start ==
    /\ pc = "init"
    /\ progress' = emit_progress(emit_progress(progress, 0), 10)
    /\ pc' = "phase1"
    /\ sweeper' = "interface"
    /\ mdns' = "daemon"
    /\ ssdp' = "bind"
    /\ UNCHANGED unitVars
    /\ UNCHANGED <<level, result, sweepErr, discovered, mdns_map, ssdp_names,
                   nbns_names, nbnsQueried, dnsAnswers, devices, portIdx>>

\* discover_devices: get_local_interface() returned None
SweeperNoInterface ==
    /\ sweeper = "interface"
    /\ sweeper' = "no_interface"
    /\ sweepErr' = "NetworkError"
    /\ UNCHANGED unitVars
    /\ UNCHANGED <<level, pc, progress, result, discovered, mdns, mdns_map,
                   ssdp, ssdp_names, nbns_names, nbnsQueried, dnsAnswers,
                   devices, portIdx>>

\* discover_devices: an interface was found and the ping sweep has run; the
\* probes' results are dropped
SweeperPingSweep ==
    /\ sweeper = "interface"
    /\ sweeper' = "arp"
    /\ UNCHANGED unitVars
    /\ UNCHANGED <<level, pc, progress, result, sweepErr, discovered, mdns,
                   mdns_map, ssdp, ssdp_names, nbns_names, nbnsQueried,
                   dnsAnswers, devices, portIdx>>

\* parse_arp_table: /proc/net/arp cannot be opened
SweeperArpOpenFail ==
    /\ sweeper = "arp"
    /\ sweeper' = "arp_unreadable"
    /\ sweepErr' = "Internal"
    /\ UNCHANGED unitVars
    /\ UNCHANGED <<level, pc, progress, result, discovered, mdns, mdns_map,
                   ssdp, ssdp_names, nbns_names, nbnsQueried, dnsAnswers,
                   devices, portIdx>>

\* parse_arp_table: the table is read and parsed.  A read error inside the
\* loop ends it without an Err, like a table cut at that line.
SweeperArpRead ==
    /\ sweeper = "arp"
    /\ \E table \in ArpTables : discovered' = parse_arp_table(table)
    /\ sweeper' = "ok"
    /\ UNCHANGED unitVars
    /\ UNCHANGED <<level, pc, progress, result, sweepErr, mdns, mdns_map, ssdp,
                   ssdp_names, nbns_names, nbnsQueried, dnsAnswers, devices,
                   portIdx>>

\* scan_mdns: ServiceDaemon::new() failed, the empty map is returned
MdnsDaemonFail ==
    /\ mdns = "daemon"
    /\ mdns' = "done"
    /\ mdns_map' = EmptyMap
    /\ UNCHANGED unitVars
    /\ UNCHANGED <<level, pc, progress, result, sweeper, sweepErr, discovered,
                   ssdp, ssdp_names, nbns_names, nbnsQueried, dnsAnswers,
                   devices, portIdx>>

\* scan_mdns: the daemon was created
MdnsDaemonOk ==
    /\ mdns = "daemon"
    /\ mdns' = "browse"
    /\ UNCHANGED unitVars
    /\ UNCHANGED <<level, pc, progress, result, sweeper, sweepErr, discovered,
                   mdns_map, ssdp, ssdp_names, nbns_names, nbnsQueried,
                   dnsAnswers, devices, portIdx>>

\* scan_mdns: browse("_services._dns-sd._udp.local.") failed and
\* .expect("Failed to browse") panics; the blocking task ends with a JoinError
MdnsBrowsePanic ==
    /\ mdns = "browse"
    /\ mdns' = "panicked"
    /\ UNCHANGED unitVars
    /\ UNCHANGED <<level, pc, progress, result, sweeper, sweepErr, discovered,
                   mdns_map, ssdp, ssdp_names, nbns_names, nbnsQueried,
                   dnsAnswers, devices, portIdx>>

\* scan_mdns: the receive loop ran to its deadline and the map is returned
\* (the browse calls of services_to_scan drop their results)
MdnsCollect ==
    /\ mdns = "browse"
    /\ \E m \in NameMaps(Ips, NameMdns) : mdns_map' = m
    /\ mdns' = "done"
    /\ UNCHANGED unitVars
    /\ UNCHANGED <<level, pc, progress, result, sweeper, sweepErr, discovered,
                   ssdp, ssdp_names, nbns_names, nbnsQueried, dnsAnswers,
                   devices, portIdx>>

\* scan_ssdp: UdpSocket::bind failed, the empty map is returned
SsdpBindFail ==
    /\ ssdp = "bind"
    /\ ssdp' = "done"
    /\ ssdp_names' = EmptyMap
    /\ UNCHANGED unitVars
    /\ UNCHANGED <<level, pc, progress, result, sweeper, sweepErr, discovered,
                   mdns, mdns_map, nbns_names, nbnsQueried, dnsAnswers,
                   devices, portIdx>>

\* scan_ssdp: the socket is bound
SsdpBindOk ==
    /\ ssdp = "bind"
    /\ ssdp' = "send"
    /\ UNCHANGED unitVars
    /\ UNCHANGED <<level, pc, progress, result, sweeper, sweepErr, discovered,
                   mdns, mdns_map, ssdp_names, nbns_names, nbnsQueried,
                   dnsAnswers, devices, portIdx>>

\* scan_ssdp: send_to of the M-SEARCH failed, the empty map is returned
SsdpSendFail ==
    /\ ssdp = "send"
    /\ ssdp' = "done"
    /\ ssdp_names' = EmptyMap
    /\ UNCHANGED unitVars
    /\ UNCHANGED <<level, pc, progress, result, sweeper, sweepErr, discovered,
                   mdns, mdns_map, nbns_names, nbnsQueried, dnsAnswers,
                   devices, portIdx>>

\* scan_ssdp: replies were collected to the deadline, the descriptions
\* fetched, and the map of friendly names is returned
SsdpCollect ==
    /\ ssdp = "send"
    /\ \E m \in NameMaps(Ips, NameSsdp) : ssdp_names' = m
    /\ ssdp' = "done"
    /\ UNCHANGED unitVars
    /\ UNCHANGED <<level, pc, progress, result, sweeper, sweepErr, discovered,
                   mdns, mdns_map, nbns_names, nbnsQueried, dnsAnswers,
                   devices, portIdx>>

\* the positions in which discover_devices has returned an Err
SweeperFailed == {"no_interface", "arp_unreadable"}

\* faulty variant of Phase1Joined: the SSDP future is not awaited
Phase1Joined_WithoutSsdp ==
    /\ sweeper \in {"ok"} \cup SweeperFailed
    /\ mdns \in {"done", "panicked"}

\* tokio::join! returns when its three futures have completed
Phase1Joined ==
    /\ sweeper \in {"ok"} \cup SweeperFailed
    /\ mdns \in {"done", "panicked"}
    /\ ssdp = "done"

\* faulty variant of JoinSweeperErr: the error is mapped to Internal, as the
\* JoinError of the mDNS task is
JoinSweeperErr_MapsToInternal ==
    /\ pc = "phase1"
    /\ sweeper \in SweeperFailed /\ mdns \in {"done", "panicked"} /\ ssdp = "done"
    /\ result' = [tag |-> "Err", kind |-> "Internal", value |-> None]
    /\ pc' = "returned"
    /\ UNCHANGED unitVars
    /\ UNCHANGED <<level, progress, sweeper, sweepErr, discovered, mdns,
                   mdns_map, ssdp, ssdp_names, nbns_names, nbnsQueried,
                   dnsAnswers, devices, portIdx>>

\* let discovered = discovered_result?;  with discovered_result an Err
JoinSweeperErr ==
    /\ pc = "phase1"
    /\ Phase1Joined
    /\ sweeper \in SweeperFailed
    /\ result' = Err(sweepErr)
    /\ pc' = "returned"
    /\ UNCHANGED unitVars
    /\ UNCHANGED <<level, progress, sweeper, sweepErr, discovered, mdns,
                   mdns_map, ssdp, ssdp_names, nbns_names, nbnsQueried,
                   dnsAnswers, devices, portIdx>>

\* let mdns_map = mdns_names.map_err(|e| ScanError::Internal(..))?;  with
\* mdns_names a JoinError
JoinMdnsErr ==
    /\ pc = "phase1"
    /\ Phase1Joined
    /\ sweeper = "ok"
    /\ mdns = "panicked"
    /\ result' = Err("Internal")
    /\ pc' = "returned"
    /\ UNCHANGED unitVars
    /\ UNCHANGED <<level, progress, sweeper, sweepErr, discovered, mdns,
                   mdns_map, ssdp, ssdp_names, nbns_names, nbnsQueried,
                   dnsAnswers, devices, portIdx>>

\* both results are Ok: emit 25 and call scan_nbns
JoinOk ==
    /\ pc = "phase1"
    /\ Phase1Joined
    /\ sweeper = "ok"
    /\ mdns = "done"
    /\ progress' = emit_progress(progress, 25)
    /\ pc' = "nbns"
    /\ UNCHANGED unitVars
    /\ UNCHANGED <<level, result, sweeper, sweepErr, discovered, mdns,
                   mdns_map, ssdp, ssdp_names, nbns_names, nbnsQueried,
                   dnsAnswers, devices, portIdx>>

\* let ip_list = discovered.iter().map(|(ip, _)| ip.clone()).collect()
ip_list == [k \in 1..Len(discovered) |-> discovered[k][1]]

Range(s) == {s[k] : k \in 1..Len(s)}

\* faulty variant of ScanNbns: only the first IP of the list is queried
ScanNbns_FirstIpOnly ==
    /\ pc = "nbns"
    /\ LET first == IF Len(ip_list) = 0 THEN {} ELSE {ip_list[1]}
       IN  /\ nbnsQueried' = first
           /\ \E m \in NameMaps(first, NameNbns) : nbns_names' = m
    /\ progress' = emit_progress(progress, 35)
    /\ pc' = "classify"
    /\ UNCHANGED unitVars
    /\ UNCHANGED <<level, result, sweeper, sweepErr, discovered, mdns,
                   mdns_map, ssdp, ssdp_names, dnsAnswers, devices, portIdx>>

\* faulty variant of ScanNbns: recv_from is awaited without a timeout, so the
\* call returns only when there was no IP to query
ScanNbns_NoTimeout ==
    /\ pc = "nbns"
    /\ ip_list = <<>>
    /\ nbnsQueried' = Range(ip_list)
    /\ \E m \in NameMaps(Range(ip_list), NameNbns) : nbns_names' = m
    /\ progress' = emit_progress(progress, 35)
    /\ pc' = "classify"
    /\ UNCHANGED unitVars
    /\ UNCHANGED <<level, result, sweeper, sweepErr, discovered, mdns,
                   mdns_map, ssdp, ssdp_names, dnsAnswers, devices, portIdx>>

\* scan_nbns(&ip_list, 2 s).await, then emit 35.  Every IP of the list is
\* queried; a host that does not answer, or a socket that fails, leaves no
\* entry.
ScanNbns ==
    /\ pc = "nbns"
    /\ nbnsQueried' = Range(ip_list)
    /\ \E m \in NameMaps(Range(ip_list), NameNbns) : nbns_names' = m
    /\ progress' = emit_progress(progress, 35)
    /\ pc' = "classify"
    /\ UNCHANGED unitVars
    /\ UNCHANGED <<level, result, sweeper, sweepErr, discovered, mdns,
                   mdns_map, ssdp, ssdp_names, dnsAnswers, devices, portIdx>>

\* the suffix of format!("{} デバイス", v)
VendorSuffix == <<" ", "U+30C7", "U+30D0", "U+30A4", "U+30B9">>

\* faulty variant of ResolveName: the NBNS name is tried before the mDNS name
ResolveName_NbnsFirst(m_name, nb_name, ssdp_name, dns_hostname, vendor) ==
    Or(nb_name,
       Or(m_name,
          Or(ssdp_name,
             Or(dns_hostname,
                IF IsSome(vendor) THEN Some(Unwrap(vendor) \o VendorSuffix)
                ELSE None))))

\* m_name.or(nb_name).or(ssdp_name).or(dns_hostname).or(vendor fallback)
ResolveName(m_name, nb_name, ssdp_name, dns_hostname, vendor) ==
    Or(m_name,
       Or(nb_name,
          Or(ssdp_name,
             Or(dns_hostname,
                IF IsSome(vendor) THEN Some(Unwrap(vendor) \o VendorSuffix)
                ELSE None))))

\* dns_hostname.or(m_name).or(nb_name)
ResolveHostname(m_name, nb_name, dns_hostname) ==
    Or(dns_hostname, Or(m_name, nb_name))

\* the answers dns_lookup::lookup_addr may give for ip; an address that does
\* not parse is not looked up
PtrAnswers(ip) == IF IpParses(ip) THEN {None, Some(NameDns)} ELSE {None}

\* the Device pushed by one iteration of `for (ip, mac) in discovered`;
\* id stands for the fresh UUID, last_seen (the wall clock) is left out
NewDevice(id, ip, mac, dns_hostname) ==
    LET vendor == lookup_vendor(mac)
        m_name == Get(mdns_map, ip)
        nb_name == Get(nbns_names, ip)
        ssdp_name == Get(ssdp_names, ip)
        name == ResolveName(m_name, nb_name, ssdp_name, dns_hostname, vendor)
    IN  [id |-> id,
         name |-> name,
         device_type |-> identify_device_type(mac, vendor, name),
         ip |-> ip,
         mac |-> mac,
         vendor |-> vendor,
         hostname |-> ResolveHostname(m_name, nb_name, dns_hostname),
         open_ports |-> <<>>,
         security_level |-> "Unknown",
         security_score |-> 0,
         issues |-> <<>>]

\* one iteration of `for (ip, mac) in discovered`: the PTR lookup of ip, then
\* the Device is pushed
BuildDevice ==
    /\ pc = "classify"
    /\ Len(devices) < Len(discovered)
    /\ LET k == Len(devices) + 1
           ip == discovered[k][1]
           mac == discovered[k][2]
       IN  \E dns_hostname \in PtrAnswers(ip) :
               /\ dnsAnswers' = Append(dnsAnswers, dns_hostname)
               /\ devices' = Append(devices, NewDevice(k, ip, mac, dns_hostname))
    /\ UNCHANGED unitVars
    /\ UNCHANGED <<level, pc, progress, result, sweeper, sweepErr, discovered,
                   mdns, mdns_map, ssdp, ssdp_names, nbns_names, nbnsQueried,
                   portIdx>>

\* the loop over discovered has ended
Classified == pc = "classify" /\ Len(devices) = Len(discovered)

\* faulty variant of BeginPortScan: the port-scan checkpoint emits 70
BeginPortScan_Emits70 ==
    /\ pc = "classify" /\ Len(devices) = Len(discovered)
    /\ level \in {"Level2", "Level3"}
    /\ progress' = emit_progress(progress, 70)
    /\ pc' = "ports"
    /\ UNCHANGED unitVars
    /\ UNCHANGED <<level, result, sweeper, sweepErr, discovered, mdns,
                   mdns_map, ssdp, ssdp_names, nbns_names, nbnsQueried,
                   dnsAnswers, devices, portIdx>>

\* faulty variant of BeginPortScan: the port scan is entered at every level
BeginPortScan_AnyLevel ==
    /\ Classified
    /\ progress' = emit_progress(progress, 50)
    /\ pc' = "ports"
    /\ UNCHANGED unitVars
    /\ UNCHANGED <<level, result, sweeper, sweepErr, discovered, mdns,
                   mdns_map, ssdp, ssdp_names, nbns_names, nbnsQueried,
                   dnsAnswers, devices, portIdx>>

\* matches!(level, Level2 | Level3): emit 50 and enter the port scan loop
BeginPortScan ==
    /\ Classified
    /\ level \in {"Level2", "Level3"}
    /\ progress' = emit_progress(progress, 50)
    /\ pc' = "ports"
    /\ UNCHANGED unitVars
    /\ UNCHANGED <<level, result, sweeper, sweepErr, discovered, mdns,
                   mdns_map, ssdp, ssdp_names, nbns_names, nbnsQueried,
                   dnsAnswers, devices, portIdx>>

\* device.open_ports = ports::scan_ports(&device.ip).await?  for one device
ScanPortsDevice ==
    /\ pc = "ports"
    /\ portIdx < Len(devices)
    /\ \E open \in OpenSets :
           devices' = [devices EXCEPT ![portIdx + 1].open_ports = scan_ports(open)]
    /\ portIdx' = portIdx + 1
    /\ UNCHANGED unitVars
    /\ UNCHANGED <<level, pc, progress, result, sweeper, sweepErr, discovered,
                   mdns, mdns_map, ssdp, ssdp_names, nbns_names, nbnsQueried,
                   dnsAnswers>>

\* emit 70 and run identify_services on every device
ServiceId ==
    /\ pc = "ports"
    /\ portIdx = Len(devices)
    /\ progress' = emit_progress(progress, 70)
    /\ devices' = [k \in 1..Len(devices) |-> identify_services(devices[k])]
    /\ pc' = IF level = "Level3" THEN "vuln" ELSE "score"
    /\ UNCHANGED unitVars
    /\ UNCHANGED <<level, result, sweeper, sweepErr, discovered, mdns,
                   mdns_map, ssdp, ssdp_names, nbns_names, nbnsQueried,
                   dnsAnswers, portIdx>>

\* matches!(level, Level3): emit 85 and run check_vulnerabilities on every
\* device
VulnCheck ==
    /\ pc = "vuln"
    /\ progress' = emit_progress(progress, 85)
    /\ devices' = [k \in 1..Len(devices) |-> check_vulnerabilities(devices[k])]
    /\ pc' = "score"
    /\ UNCHANGED unitVars
    /\ UNCHANGED <<level, result, sweeper, sweepErr, discovered, mdns,
                   mdns_map, ssdp, ssdp_names, nbns_names, nbnsQueried,
                   dnsAnswers, portIdx>>

\* emit 95, score every device, emit 100, return Ok(devices)
Score ==
    /\ \/ pc = "score"
       \/ Classified /\ level = "Level1"
    /\ LET scored == [k \in 1..Len(devices) |-> calculate_security_score(devices[k])]
       IN  /\ devices' = scored
           /\ result' = Ok(scored)
    /\ progress' = emit_progress(emit_progress(progress, 95), 100)
    /\ pc' = "returned"
    /\ UNCHANGED unitVars
    /\ UNCHANGED <<level, sweeper, sweepErr, discovered, mdns, mdns_map, ssdp,
                   ssdp_names, nbns_names, nbnsQueried, dnsAnswers, portIdx>>

Next ==
    \/ Start
    \/ SweeperNoInterface
    \/ SweeperPingSweep
    \/ SweeperArpOpenFail
    \/ SweeperArpRead
    \/ MdnsDaemonFail
    \/ MdnsDaemonOk
    \/ MdnsBrowsePanic
    \/ MdnsCollect
    \/ SsdpBindFail
    \/ SsdpBindOk
    \/ SsdpSendFail
    \/ SsdpCollect
    \/ JoinSweeperErr
    \/ JoinMdnsErr
    \/ JoinOk
    \/ ScanNbns
    \/ BuildDevice
    \/ BeginPortScan
    \/ ScanPortsDevice
    \/ ServiceId
    \/ VulnCheck
    \/ Score

Spec == Init /\ [][Next]_vars

\* scan_network keeps running.  Every step is a computation or a wait that a
\* timeout ends (ping -W 1, the 2 s NBNS receive, the 3 s SSDP and mDNS
\* collection deadlines, the 2 s description fetch, the resolver's own time
\* limit on the PTR lookup, the 500 ms TCP connect), so the steps are weakly
\* fair: scan_nbns returns once it is called, and the other steps, one of
\* which is enabled exactly while scan_network has neither returned nor
\* reached the call of scan_nbns, keep being taken.
LiveSpec ==
    /\ Spec
    /\ WF_vars(ScanNbns)
    /\ \/ []<>(pc \in {"nbns", "returned"})
       \/ []<><<Next>>_vars

\* ================================================================ claims

\* the devices scan_network returned, when it returned Ok
Returned == IF result.tag = "Ok" THEN Unwrap(result.value) ELSE <<>>

ReturnedOk == pc = "returned" /\ result.tag = "Ok"

NonDecreasing(s) == \A i, j \in 1..Len(s) : i < j => s[i] <= s[j]

ExpectedProgress(l) ==
    <<0, 10, 25, 35>>
    \o (IF l \in {"Level2", "Level3"} THEN <<50, 70>> ELSE <<>>)
    \o (IF l = "Level3" THEN <<85>> ELSE <<>>)
    \o <<95, 100>>

\* C1: in every run of scan(level) the emitted progress values are
\* non-decreasing, and in a run that returns Ok the emitted sequence is exactly
\* 0, 10, 25, 35, then 50 and 70 iff level >= 2, then 85 iff level = 3, then
\* 95, 100.
C1_ProgressSequence ==
    /\ NonDecreasing(progress)
    /\ ReturnedOk => progress = ExpectedProgress(level)

\* a Level3 scan of a nonempty segment has returned Ok
C1_Witness ==
    ReturnedOk /\ level = "Level3" /\ Len(Returned) > 0 /\ Len(progress) = 9

\* C2: for every device returned by a successful scan, at every level,
\* security_score is in 0..100 and security_level is Safe iff the score is in
\* 80..100, Warning iff in 50..79, Danger iff in 0..49.
C2_ScoreAndLevel ==
    ReturnedOk =>
        \A k \in 1..Len(Returned) :
            LET d == Returned[k]
            IN  /\ d.security_score \in 0..100
                /\ d.security_level = "Safe" <=> d.security_score \in 80..100
                /\ d.security_level = "Warning" <=> d.security_score \in 50..79
                /\ d.security_level = "Danger" <=> d.security_score \in 0..49

\* a scan has returned a device at the Safe boundary (80) and a Danger device
C2_Witness ==
    /\ ReturnedOk
    /\ \E k \in 1..Len(Returned) :
           Returned[k].security_score = 80 /\ Returned[k].security_level = "Safe"
    /\ \E k \in 1..Len(Returned) : Returned[k].security_level = "Danger"

\* C3 as stated: in a scan run at Level1 every returned device has
\* security_level Unknown.
C3_Level1Unknown ==
    ReturnedOk /\ level = "Level1" =>
        \A k \in 1..Len(Returned) : Returned[k].security_level = "Unknown"

\* C3 (amended): in a scan run at Level1 (no probes run, score left at 100)
\* every returned device has security_score 100 and security_level Safe.
C3_Level1Safe ==
    ReturnedOk /\ level = "Level1" =>
        \A k \in 1..Len(Returned) :
            /\ Returned[k].security_score = 100
            /\ Returned[k].security_level = "Safe"

\* a Level1 scan has returned at least one device
C3_Witness == ReturnedOk /\ level = "Level1" /\ Len(Returned) > 0

\* C4: in the result of a scan no two devices have the same IP, for every
\* content of the ARP table.
C4_UniqueIps ==
    ReturnedOk =>
        \A i, j \in 1..Len(Returned) : i # j => Returned[i].ip # Returned[j].ip

UpperHexDigits ==
    {"0", "1", "2", "3", "4", "5", "6", "7", "8", "9", "A", "B", "C", "D", "E", "F"}

\* six colon-separated two-digit hex octets, letters uppercase
IsCanonicalMac(m) ==
    /\ Len(m) = 17
    /\ \A i \in 1..17 :
           IF i % 3 = 0 THEN m[i] = ":" ELSE m[i] \in UpperHexDigits

\* C5: every device returned by a scan has its mac in canonical form, whatever
\* casing the ARP table line used.
C5_CanonicalMac ==
    ReturnedOk => \A k \in 1..Len(Returned) : IsCanonicalMac(Returned[k].mac)

\* the name of the first source with an entry for the k-th discovered IP, in
\* the order mDNS, NBNS, SSDP, DNS-PTR, vendor
FirstSourceName(k) ==
    LET ip == devices[k].ip
        vendor == devices[k].vendor
    IN  IF ip \in DOMAIN mdns_map THEN {mdns_map[ip]}
        ELSE IF ip \in DOMAIN nbns_names THEN {nbns_names[ip]}
        ELSE IF ip \in DOMAIN ssdp_names THEN {ssdp_names[ip]}
        ELSE IF dnsAnswers[k] # {} THEN dnsAnswers[k]
        ELSE IF vendor # {} THEN {Unwrap(vendor) \o VendorSuffix}
        ELSE {}

NoSourceNames(k) ==
    LET ip == devices[k].ip
    IN  /\ ip \notin DOMAIN mdns_map
        /\ ip \notin DOMAIN nbns_names
        /\ ip \notin DOMAIN ssdp_names
        /\ dnsAnswers[k] = {}

\* C6: for every discovered IP the display name is the name of the first
\* source that has an entry for that IP in the order mDNS, NBNS, SSDP, DNS-PTR,
\* then the vendor-derived fallback when a vendor is known; the name is absent
\* only when all four sources have no entry and the vendor is unknown.
C6_NamePriority ==
    \A k \in 1..Len(devices) :
        /\ devices[k].ip = discovered[k][1]
        /\ devices[k].name = FirstSourceName(k)
        /\ devices[k].name = {} => NoSourceNames(k) /\ devices[k].vendor = {}

\* one device is named by mDNS although NBNS, SSDP and DNS-PTR answered too,
\* and another has no name
C6_Witness ==
    /\ \E k \in 1..Len(devices) :
           /\ devices[k].ip \in DOMAIN mdns_map
           /\ devices[k].ip \in DOMAIN nbns_names
           /\ devices[k].ip \in DOMAIN ssdp_names
           /\ dnsAnswers[k] # {}
           /\ devices[k].name = {NameMdns}
    /\ \E k \in 1..Len(devices) : devices[k].name = {}

\* C7: when the Sweeper fails, scan returns an error carrying the Sweeper's
\* error kind (NetworkError when no interface is usable), returns no device
\* list, and emits no progress checkpoint after sweep-start (10).
C7_SweeperFailureAborts ==
    sweeper \in SweeperFailed =>
        /\ progress = <<0, 10>>
        /\ devices = <<>>
        /\ result.tag # "Ok"
        /\ pc = "returned" =>
               /\ result.tag = "Err"
               /\ result.kind = sweepErr
               /\ result.value = {}
               /\ sweeper = "no_interface" => result.kind = "NetworkError"
               /\ sweeper = "arp_unreadable" => result.kind = "Internal"

\* scan has returned after the Sweeper found no usable interface
C7_Witness == pc = "returned" /\ sweeper = "no_interface"

\* C8: a failure inside any name resolver never makes scan return an error:
\* provided the Sweeper succeeds, scan returns Ok.
C8_ResolverFailureSilent ==
    pc = "returned" /\ sweeper = "ok" => result.tag = "Ok"

\* C9: no NBNS query and no DNS-PTR lookup is issued before the Sweeper has
\* completed, and the Sweeper, the mDNS browser and the SSDP discoverer have
\* all completed before the name-resolve checkpoint (25) is emitted.
C9_PhaseOrder ==
    /\ nbnsQueried # {} \/ dnsAnswers # <<>> \/ pc \in {"nbns", "classify"}
           => sweeper = "ok"
    /\ 25 \in Range(progress) =>
           sweeper = "ok" /\ mdns = "done" /\ ssdp = "done"

\* checkpoint 25 was emitted and NBNS queries and a PTR lookup were issued
C9_Witness ==
    25 \in Range(progress) /\ nbnsQueried # {} /\ dnsAnswers # <<>>

\* C10 as stated: the NBNS Querier and the DNS Reverse Resolver have both
\* completed for every IP before the classify checkpoint (35) is emitted and
\* before any Device is built.
C10_BothBeforeClassify ==
    35 \in Range(progress) \/ devices # <<>> =>
        /\ nbnsQueried = Range(ip_list)
        /\ Len(dnsAnswers) = Len(discovered)

\* C10 (amended): the NBNS Querier has completed for every IP of the
\* Sweeper's list before checkpoint 35 is emitted and before any Device is
\* built; the DNS-PTR lookups are issued after checkpoint 35, one per IP in
\* list order, each completed when the Device for its IP is built.
C10_NbnsBeforeClassifyDnsPerDevice ==
    /\ 35 \in Range(progress) \/ devices # <<>> =>
           /\ pc \notin {"init", "phase1", "nbns"}
           /\ nbnsQueried = Range(ip_list)
    /\ dnsAnswers # <<>> => 35 \in Range(progress)
    /\ Len(dnsAnswers) = Len(devices)

\* two hosts with different IPs were queried by NBNS, checkpoint 35 was
\* emitted, and the first Device is built while the second IP has not been
\* looked up
C10_Witness ==
    /\ 35 \in Range(progress)
    /\ Cardinality(nbnsQueried) = 2
    /\ Len(devices) = 1
    /\ Len(discovered) = 2

\* ====================================================== chunked probe loops
\* discover_devices (the ping sweep) and scan_nbns (the NBNS queries) both walk
\* ips.chunks(N): every address of a chunk gets a task from tokio::spawn, then
\* every JoinHandle of the chunk is awaited before the next chunk is taken.

\* ips.chunks(50) in discover_devices
PING_CHUNK == 50

\* ips.chunks(50) in scan_nbns
NBNS_CHUNK == 50

ChunkSize(kind) == IF kind = "ping" THEN PING_CHUNK ELSE NBNS_CHUNK

\* the largest number of target addresses followed
MaxTargets == 101

\* chunk.len() of the chunk that starts at offset `from`
ChunkLen(kind, total, from) ==
    IF ChunkSize(kind) < total - from THEN ChunkSize(kind) ELSE total - from

ChunkInit ==
    /\ ScanIdle
    /\ CallIdle
    /\ CollectIdle
    /\ StoreIdle
    /\ chunkOf \in {"ping", "nbns"}
    \* no address, one, a full chunk, a chunk and one, two chunks and a rest
    /\ targets \in {0, 1, ChunkSize(chunkOf), ChunkSize(chunkOf) + 1, MaxTargets}
    /\ done = 0
    /\ spawned = 0
    /\ running = 0
    /\ stale = 0
    /\ bpc = "call"

\* scan_nbns returns at once on an empty slice; chunks() of an empty slice
\* yields nothing, so the ping loop is left at once as well
EnterChunks ==
    /\ bpc = "call"
    /\ bpc' = IF targets = 0 THEN "left" ELSE "spawn"
    /\ UNCHANGED <<chunkOf, targets, done, spawned, running, stale>>
    /\ UNCHANGED <<scanVars, callVars, collectVars, storeVars>>

\* tasks.push(tokio::spawn(..)) for the next address of the chunk; the task
\* runs from then on.  After the last address the loop over `tasks` is entered.
SpawnTask ==
    /\ bpc = "spawn"
    /\ spawned < ChunkLen(chunkOf, targets, done)
    /\ spawned' = spawned + 1
    /\ running' = running + 1
    /\ bpc' = IF spawned' = ChunkLen(chunkOf, targets, done)
              THEN "await" ELSE "spawn"
    /\ UNCHANGED <<chunkOf, targets, done, stale>>
    /\ UNCHANGED <<scanVars, callVars, collectVars, storeVars>>

\* a spawned task runs to its end (the ping exits, the NBNS query answers or
\* times out), whatever the loop is doing
TaskFinishes ==
    /\ bpc \in {"spawn", "await"}
    /\ \E ofCurrentChunk \in BOOLEAN :
         IF ofCurrentChunk
         THEN running > 0 /\ running' = running - 1 /\ stale' = stale
         ELSE stale > 0 /\ stale' = stale - 1 /\ running' = running
    /\ UNCHANGED <<chunkOf, targets, done, spawned, bpc>>
    /\ UNCHANGED <<scanVars, callVars, collectVars, storeVars>>

\* `for task in tasks { task.await }` without the wait: the chunk is left
\* with its tasks still running
JoinChunk_NoWait ==
    /\ bpc = "await"
    /\ done' = done + spawned
    /\ stale' = stale + running
    /\ spawned' = 0
    /\ running' = 0
    /\ bpc' = IF done' < targets THEN "spawn" ELSE "left"
    /\ UNCHANGED <<chunkOf, targets>>
    /\ UNCHANGED <<scanVars, callVars, collectVars, storeVars>>

\* `for task in tasks { .. task.await .. }`: the loop ends when the last
\* handle of the chunk has been awaited, that is when every task of the chunk
\* has finished; then the next chunk is taken, or the loop over chunks ends
JoinChunk ==
    /\ bpc = "await"
    /\ running = 0
    /\ done' = done + spawned
    /\ stale' = stale + running
    /\ spawned' = 0
    /\ running' = 0
    /\ bpc' = IF done' < targets THEN "spawn" ELSE "left"
    /\ UNCHANGED <<chunkOf, targets>>
    /\ UNCHANGED <<scanVars, callVars, collectVars, storeVars>>

ChunkNext ==
    \/ EnterChunks
    \/ SpawnTask
    \/ TaskFinishes
    \/ JoinChunk

ChunkSpec == ChunkInit /\ [][ChunkNext]_vars

\* C11: during the ping sweep and during the NBNS scan at most 50 probe tasks
\* are in flight at any moment, and whenever a task of a batch has been
\* started every task of the batches before it has finished, for every number
\* of target addresses
C11_ChunkedProbes ==
    /\ running + stale <= 50
    /\ spawned > 0 => stale = 0

\* the second batch of a sweep over more than 100 addresses is fully in flight
C11_Witness ==
    /\ targets > 100
    /\ done = 50
    /\ running = 50

\* ================================================== functions called alone
\* A u32 is the pair <<high 16 bits, low 16 bits>>.

\* a & b on 16-bit values
RECURSIVE BitAnd(_, _)
BitAnd(a, b) ==
    IF a = 0 \/ b = 0 THEN 0
    ELSE (a % 2) * (b % 2) + 2 * BitAnd(a \div 2, b \div 2)

And32(a, b) == <<BitAnd(a[1], b[1]), BitAnd(a[2], b[2])>>

\* !a
Not32(a) == <<65535 - a[1], 65535 - a[2]>>

\* a | b
Or32(a, b) == Not32(And32(Not32(a), Not32(b)))

\* a + 1 modulo 2^32
Succ32(a) ==
    IF a[2] < 65535 THEN <<a[1], a[2] + 1>> ELSE <<(a[1] + 1) % 65536, 0>>

\* a < b
Lt32(a, b) == a[1] < b[1] \/ (a[1] = b[1] /\ a[2] < b[2])

\* u32::from(Ipv4Addr::new(a, b, c, d))
Ipv4(a, b, c, d) == <<a * 256 + b, c * 256 + d>>

\* `for i in from..to { ips.push(Ipv4Addr::from(i)) }`
RECURSIVE PushRange(_, _)
PushRange(from, to) ==
    IF Lt32(from, to) THEN <<from>> \o PushRange(Succ32(from), to) ELSE <<>>

\* get_ips_in_subnet with the loop starting at the network address itself
get_ips_in_subnet_FromNetwork(ip, mask, overflow_checks) ==
    LET network_u32 == And32(ip, mask)
        broadcast_u32 == Or32(network_u32, Not32(mask))
    IN  [tag |-> "Ok", wrapped |-> FALSE,
         from |-> network_u32, to |-> broadcast_u32]

\* fn get_ips_in_subnet(ip, mask).  `network_u32 + 1` is a plain u32 addition:
\* when network_u32 is u32::MAX a build with overflow checks panics there and
\* a build without them goes on with 0.  The Vec returned is the one the loop
\* over from..to fills, PushRange(from, to).
get_ips_in_subnet(ip, mask, overflow_checks) ==
    LET network_u32 == And32(ip, mask)
        broadcast_u32 == Or32(network_u32, Not32(mask))
        overflows == network_u32 = <<65535, 65535>>
    IN  IF overflows /\ overflow_checks
        THEN [tag |-> "Panic", wrapped |-> FALSE,
              from |-> network_u32, to |-> broadcast_u32]
        ELSE [tag |-> "Ok", wrapped |-> overflows,
              from |-> Succ32(network_u32), to |-> broadcast_u32]

\* the most host bits of a netmask followed
MaxHostBits == 4

\* the netmask with h host bits, h <= 16
Netmask(h) == <<65535, 65536 - 2^h>>

\* interface addresses and netmasks: /32 up to /(32 - MaxHostBits) and one
\* mask whose set bits are not contiguous
SubnetArgs ==
    [ip : {Ipv4(192, 168, 1, 10), Ipv4(192, 168, 1, 255), Ipv4(10, 0, 0, 1),
           Ipv4(172, 16, 5, 130), Ipv4(0, 0, 0, 0), Ipv4(255, 255, 255, 254),
           Ipv4(255, 255, 255, 255)},
     mask : {Netmask(h) : h \in 0..MaxHostBits}
            \cup {Ipv4(255, 255, 255, 250)}]

\* data[i] of a byte slice, i counted from 0
Byte(data, i) == data[i + 1]

\* `while pos < data.len() && data[pos] != 0 { pos += data[pos] as usize + 1 }`
RECURSIVE SkipName(_, _)
SkipName(data, pos) ==
    IF pos < Len(data) /\ Byte(data, pos) # 0
    THEN SkipName(data, pos + Byte(data, pos) + 1)
    ELSE pos

\* String::from_utf8_lossy on bytes that are ASCII or 0xFF: a string is the
\* sequence of its code points; 0xFF is never part of a UTF-8 encoding and
\* decodes to U+FFFD
Utf8Lossy(bytes) ==
    [k \in 1..Len(bytes) |->
        CASE bytes[k] < 128 -> bytes[k]
          [] bytes[k] = 255 -> 65533]

\* str::trim_end(): the trailing characters with the White_Space property go
RECURSIVE TrimEnd(_)
TrimEnd(s) ==
    LET White_Space == {9, 10, 11, 12, 13, 32, 133, 160, 5760, 8232, 8233,
                        8239, 8287, 12288} \cup (8192..8202)
    IN  IF s # <<>> /\ s[Len(s)] \in White_Space
        THEN TrimEnd(SubSeq(s, 1, Len(s) - 1))
        ELSE s

\* `for _ in 0..num_names { .. }` from entry offset pos with `left` rounds to go
RECURSIVE ScanNames(_, _, _)
ScanNames(data, pos, left) ==
    IF left = 0 \/ pos + 18 > Len(data) THEN None
    ELSE LET name_bytes == SubSeq(data, pos + 1, pos + 15)
             flags == Byte(data, pos + 16) * 256 + Byte(data, pos + 17)
             is_group == (flags \div 32768) % 2 # 0      \* flags & 0x8000
             name == TrimEnd(Utf8Lossy(name_bytes))
         IN  IF ~is_group /\ name # <<>> THEN Some(name)
             ELSE ScanNames(data, pos + 18, left - 1)

\* fn parse_nbns_response(data: &[u8]) -> Option<String>
parse_nbns_response(data) ==
    IF Len(data) < 57 THEN None
    ELSE LET afterName ==
                 IF (Byte(data, 12) \div 64) % 4 = 3         \* & 0xC0 == 0xC0
                 THEN 12 + 2
                 ELSE SkipName(data, 12) + 1
             pos == afterName + 10
         IN  IF pos >= Len(data) THEN None
             ELSE ScanNames(data, pos + 1, Byte(data, pos))

\* the indices read were every declared entry followed without the test of
\* pos + 18 against data.len(): an index >= Len(data) is a read past the end
parse_nbns_reads_NoEntryCheck(data) ==
    LET len == Len(data)
        at(i) == IF i < len THEN data[i + 1] ELSE 0
        label[pos \in 0..(len + 256)] ==
            IF pos < len
            THEN {pos} \cup (IF at(pos) # 0 THEN label[pos + at(pos) + 1] ELSE {})
            ELSE {}
        entry[e \in (0..(len + 300)) \X (0..255)] ==
            LET pos == e[1]
                left == e[2]
                name == TrimEnd(Utf8Lossy([k \in 1..15 |->
                                             IF at(pos + k - 1) = 255 THEN 255
                                             ELSE at(pos + k - 1) % 128]))
                flags == at(pos + 16) * 256 + at(pos + 17)
                is_group == (flags \div 32768) % 2 # 0
            IN  IF left = 0 \/ pos + 18 > len + 300 THEN {}
                ELSE (pos..(pos + 17))
                     \cup (IF ~is_group /\ name # <<>> THEN {}
                           ELSE entry[<<pos + 18, left - 1>>])
    IN  IF len < 57 THEN {}
        ELSE LET pointer == (at(12) \div 64) % 4 = 3
                 pos == (IF pointer THEN 12 + 2 ELSE SkipName(data, 12) + 1) + 10
             IN  {12} \cup (IF pointer THEN {} ELSE label[12])
                      \cup (IF pos >= len THEN {}
                            ELSE {pos} \cup entry[<<pos + 1, at(pos)>>])

\* the indices of data that parse_nbns_response reads, in the order of its
\* code: data[12], data[pos] in the label loop while pos < data.len(),
\* data[pos] for num_names once pos < data.len(), and data[pos..pos + 18]
\* of every entry looked at once pos + 18 <= data.len()
parse_nbns_reads(data) ==
    LET len == Len(data)
        label[pos \in 0..(len + 256)] ==
            IF pos < len
            THEN {pos} \cup (IF Byte(data, pos) # 0
                             THEN label[pos + Byte(data, pos) + 1] ELSE {})
            ELSE {}
        entry[e \in (0..(len + 300)) \X (0..255)] ==
            LET pos == e[1]
                left == e[2]
            IN  IF left = 0 \/ pos + 18 > len THEN {}
                ELSE LET name == TrimEnd(Utf8Lossy(SubSeq(data, pos + 1, pos + 15)))
                         flags == Byte(data, pos + 16) * 256 + Byte(data, pos + 17)
                         is_group == (flags \div 32768) % 2 # 0
                     IN  (pos..(pos + 17))
                         \cup (IF ~is_group /\ name # <<>> THEN {}
                               ELSE entry[<<pos + 18, left - 1>>])
    IN  IF len < 57 THEN {}
        ELSE LET pointer == (Byte(data, 12) \div 64) % 4 = 3
                 pos == (IF pointer THEN 12 + 2 ELSE SkipName(data, 12) + 1) + 10
             IN  {12} \cup (IF pointer THEN {} ELSE label[12])
                      \cup (IF pos >= len THEN {}
                            ELSE {pos} \cup entry[<<pos + 1, Byte(data, pos)>>])

\* the most name entries of a node status response followed
MaxNames == 2

\* what may arrive as the answer to a node status request: header, answer
\* name (a pointer, the encoded wildcard name, or a label length that runs
\* past the end), type/class/ttl/length, the declared number of names, up to
\* MaxNames 18-byte entries, with or without the 46-byte statistics; whole,
\* one byte short, or cut to 56 bytes
NbnsResponses ==
    LET header == <<18, 52, 132, 0, 0, 0, 0, 1, 0, 0, 0, 0>>
        rrname == {<<192, 12>>,
                   <<32, 67, 75>> \o [k \in 1..30 |-> 65] \o <<0>>,
                   <<63>>}
        pad(t) == t \o [k \in 1..(15 - Len(t)) |-> 32]
        names == {pad(<<72, 79, 83, 84>>),          \* "HOST"
                  pad(<<>>),
                  pad(<<80, 67, 9>>),               \* "PC\t"
                  pad(<<78, 255>>)}                 \* "N", 0xFF
        flags == {<<4, 0>>, <<132, 0>>, <<68, 0>>}  \* unique, group, unique M-node
        entries == {nm \o <<0>> \o fl : nm \in names, fl \in flags}
        flat(es) == [i \in 1..(18 * Len(es)) |->
                        es[((i - 1) \div 18) + 1][((i - 1) % 18) + 1]]
        whole == {header \o rn \o <<0, 33, 0, 1, 0, 0, 0, 0, 0, 1 + Len(body) + st>>
                  \o <<declared>> \o body \o [k \in 1..st |-> 0] :
                      rn \in rrname,
                      body \in {flat(es) : es \in SeqsUpTo(entries, MaxNames)},
                      declared \in 0..(MaxNames + 1),
                      st \in {0, 46}}
        \* bytes that are no node status response at all: one value
        \* throughout (label lengths chained to or past the end, a pointer
        \* followed by 255 declared names), or a pointer and then 'A's
        junk == {[k \in 1..n |-> b] : n \in {57, 60, 61, 79},
                                      b \in {0, 1, 17, 255}}
                \cup {[k \in 1..n |-> IF k = 13 THEN 192 ELSE 65] :
                          n \in {57, 60, 61, 79}}
    IN  whole \cup {Take(d, Len(d) - 1) : d \in whole}
              \cup {Take(d, 56) : d \in whole}
              \cup junk

CallParseResponse ==
    /\ fn = "parse_nbns_response"
    /\ out = NotCalled
    /\ out' = [tag |-> "Ok", value |-> parse_nbns_response(arg)]
    /\ UNCHANGED <<fn, arg>>
    /\ UNCHANGED <<scanVars, chunkVars, collectVars, storeVars>>

\* the display name with the instance name tried before the TXT records
display_name_InstanceFirst(info) ==
    LET dots == {i \in 1..Len(info.fullname) : info.fullname[i] = "."}
        instance_name ==
            IF dots = {} THEN info.fullname
            ELSE SubSeq(info.fullname, 1,
                        (CHOOSE i \in dots : \A j \in dots : i <= j) - 1)
    IN  instance_name

\* scan_mdns, for one ServiceEvent::ServiceResolved(info): the display_name
\* computed from get_fullname(), get_hostname() and get_properties()
display_name(info) ==
    LET \* fullname.split('.').next().unwrap_or("")
        dots == {i \in 1..Len(info.fullname) : info.fullname[i] = "."}
        instance_name ==
            IF dots = {} THEN info.fullname
            ELSE SubSeq(info.fullname, 1,
                        (CHOOSE i \in dots : \A j \in dots : i <= j) - 1)
        \* hostname.trim_end_matches('.')
        kept == {n \in 0..Len(info.hostname) :
                    /\ \A j \in (n + 1)..Len(info.hostname) : info.hostname[j] = "."
                    /\ n > 0 => info.hostname[n] # "."}
        clean_hostname == SubSeq(info.hostname, 1, CHOOSE n \in kept : TRUE)
        \* find_map over the properties
        named == {i \in 1..Len(info.properties) :
                     /\ Str(info.properties[i].key) \in {"fn", "n", "name"}
                     /\ info.properties[i].val # <<>>}
        txt_name ==
            IF named = {} THEN None
            ELSE Some(info.properties[CHOOSE i \in named :
                                          \A j \in named : i <= j].val)
    IN  IF IsSome(txt_name) THEN Unwrap(txt_name)
        ELSE IF instance_name # <<>> /\ instance_name # clean_hostname
             THEN instance_name
        ELSE clean_hostname

\* the most TXT properties of a resolved service followed
MaxProps == 2

\* resolved service instances: full names with an instance label, with an
\* empty one and without a dot; host names with and without the trailing
\* dot; TXT properties with the name keys and another key, with and without
\* a value
ResolvedServices ==
    [fullname : {<<"D", "e", "n", ".", "_", "g", ".">>,
                 <<"p", "i", ".", "_", "g", ".">>,
                 <<".", "_", "g", ".">>,
                 <<"p", "i">>},
     hostname : {<<"p", "i", ".">>,
                 <<"p", "i", ".", "l", "a", "n", ".">>,
                 <<"p", "i">>},
     properties : SeqsUpTo([key : {<<"f", "n">>, <<"n">>, <<"n", "a", "m", "e">>,
                                   <<"m", "d">>},
                            val : {<<>>, <<"S", "p", "k">>}], MaxProps)]

CallDisplayName ==
    /\ fn = "display_name"
    /\ out = NotCalled
    /\ out' = [tag |-> "Ok", value |-> display_name(arg)]
    /\ UNCHANGED <<fn, arg>>
    /\ UNCHANGED <<scanVars, chunkVars, collectVars, storeVars>>

\* what identify_device_type is called with: a MAC of the Raspberry Pi OUI or
\* of no listed OUI, no vendor or a vendor of OUI_DATABASE, no name or a name
\* that matches no pattern, one pattern set, or two
FingerprintArgs ==
    [mac : {ToUpper(MacPi), MacOther},
     vendor : {None} \cup {Some(OUI_DATABASE[k][2]) : k \in 1..Len(OUI_DATABASE)},
     name : {None,
             Some(<<"r", "a", "s", "p", "b", "e", "r", "r", "y", "p", "i">>),
             Some(<<"I", "P", "H", "O", "N", "E">>),
             Some(<<"D", "e", "l", "l", "-", "7">>),
             Some(<<"D", "e", "n", " ", "T", "V">>),
             Some(<<"A", "Q", "U", "O", "S">>),
             Some(<<"G", "a", "l", "a", "x", "y", " ", "l", "a", "p", "t", "o", "p">>),
             Some(<<"H", "P", "-", "T", "V">>)}]

CallIdentify ==
    /\ fn = "identify_device_type"
    /\ out = NotCalled
    /\ out' = [tag |-> "Ok",
               value |-> identify_device_type(arg.mac, arg.vendor, arg.name)]
    /\ UNCHANGED <<fn, arg>>
    /\ UNCHANGED <<scanVars, chunkVars, collectVars, storeVars>>

\* longest issue list a device is scored with
MaxIssues == 3

\* the devices calculate_security_score and identify_services are called with:
\* any device type, the port list of a probed host (or one that names the IPP
\* port 631, which is outside COMMON_PORTS), and up to MaxIssues issues of any
\* severity
DeviceArgs ==
    LET IssueId(severity) ==
            CASE severity = "Critical" -> "default-password"
              [] severity = "High" -> "telnet-open"
              [] severity = "Medium" -> "upnp-enabled"
              [] OTHER -> "other"
        Issues == {SecurityIssue(IssueId(sv), sv) : sv \in IssueSeverity}
        PortLists ==
            {scan_ports(open) :
                open \in {{}, {23, 80}, {22, 443}, {554}, {1883, 8883},
                          {554, 1883}, {22, 23, 1900}}}
            \cup {<<MakePort(631)>>, <<MakePort(554), MakePort(631)>>,
                  <<MakePort(631), MakePort(554)>>}
    IN  {[NewDevice(1, Ip1, MacOther, None) EXCEPT
              !.device_type = t, !.open_ports = p, !.issues = i] :
            t \in DeviceType, p \in PortLists, i \in SeqsUpTo(Issues, MaxIssues)}

\* the hosts scan_ports is called for: an ip text that parses as an address or
\* one that does not, and for every port of COMMON_PORTS the outcome of
\* TcpStream::connect_timeout: connected, refused, or timed out after 500 ms
ProbeArgs ==
    {[parses |-> parses,
      probe |-> [k \in 1..Len(COMMON_PORTS) |->
                    IF COMMON_PORTS[k] \in connected THEN "connected"
                    ELSE IF COMMON_PORTS[k] \in slow THEN "timeout"
                    ELSE "refused"]] :
        parses \in BOOLEAN,
        connected \in SUBSET {22, 23, 80, 8883, 9000},
        slow \in {{}, {21, 443}}}

\* scan_ports(ip): one task per port runs is_port_open, which panics at
\* addr.parse().unwrap() when "ip:port" is no socket address and else returns
\* connect_timeout(..).is_ok(); a task that panicked is awaited as Err and
\* skipped like one that returned None
CallScanPorts ==
    /\ fn = "scan_ports"
    /\ out = NotCalled
    /\ LET is_port_open(k) == arg.probe[k] = "connected"
           open == {COMMON_PORTS[k] : k \in {j \in 1..Len(COMMON_PORTS) :
                                                arg.parses /\ is_port_open(j)}}
       IN  out' = [tag |-> "Ok", value |-> scan_ports(open)]
    /\ UNCHANGED <<fn, arg>>
    /\ UNCHANGED <<scanVars, chunkVars, collectVars, storeVars>>

CallRefine ==
    /\ fn = "identify_services"
    /\ out = NotCalled
    /\ out' = [tag |-> "Ok", value |-> identify_services(arg)]
    /\ UNCHANGED <<fn, arg>>
    /\ UNCHANGED <<scanVars, chunkVars, collectVars, storeVars>>

CallScore ==
    /\ fn = "calculate_security_score"
    /\ out = NotCalled
    /\ out' = [tag |-> "Ok", value |-> calculate_security_score(arg)]
    /\ UNCHANGED <<fn, arg>>
    /\ UNCHANGED <<scanVars, chunkVars, collectVars, storeVars>>

\* most ServiceResolved events received before the deadline
MaxEvents == 3

\* the ServiceResolved events scan_mdns may receive: a service whose display
\* name is its instance label "Den", one whose name is its hostname "pi", one
\* named "Spk" by a TXT record and one named by a TXT record with two
\* two-byte characters, each resolved to one or both addresses of the segment
\* (get_addresses() yields the IPv4 addresses of the resolution)
MdnsEvents ==
    LET service(fullname, properties) ==
            [fullname |-> fullname, hostname |-> <<"p", "i", ".">>,
             properties |-> properties]
        fn_is(val) == <<[key |-> <<"f", "n">>, val |-> val]>>
        infos == {service(<<"D", "e", "n", ".", "_", "g", ".">>, <<>>),
                  service(<<"p", "i", ".", "_", "g", ".">>, <<>>),
                  service(<<"p", "i", ".", "_", "g", ".">>, fn_is(<<"S", "p", "k">>)),
                  service(<<"p", "i", ".", "_", "g", ".">>,
                          fn_is(<<"U+00E9", "U+00E9">>))}
    IN  SeqsUpTo([info : infos, addresses : {{Ip1}, {Ip2}, {Ip1, Ip2}}], MaxEvents)

\* faulty variant of MdnsResolved: a name of equal length replaces the entry
MdnsResolved_ReplaceOnEqual ==
    /\ fn = "scan_mdns"
    /\ out.tag \in {"NotCalled", "Running"}
    /\ LET seen == IF out.tag = "NotCalled" THEN 0 ELSE out.seen
           resolved_names == IF out.tag = "NotCalled" THEN EmptyMap ELSE out.value
           len(name) ==
               LET bytes[k \in 0..Len(name)] ==
                       IF k = 0 THEN 0
                       ELSE bytes[k - 1] + (IF Len(name[k]) = 1 THEN 1 ELSE 2)
               IN  bytes[Len(name)]
       IN  /\ seen < Len(arg)
           /\ LET event == arg[seen + 1]
                  name == display_name(event.info)
                  taken == {ip \in event.addresses :
                               \/ ip \notin DOMAIN resolved_names
                               \/ len(name) >= len(resolved_names[ip])}
              IN  out' = [tag |-> "Running", seen |-> seen + 1,
                          value |-> [ip \in DOMAIN resolved_names \cup taken |->
                                        IF ip \in taken THEN name
                                        ELSE resolved_names[ip]]]
    /\ UNCHANGED <<fn, arg>>
    /\ UNCHANGED <<scanVars, chunkVars, collectVars, storeVars>>

\* scan_mdns, one turn of the receive loop that gets a ServiceResolved event
\* before the deadline: for every address of the event the display name is
\* inserted if the address has no entry or if display_name.len() >
\* existing.len(); len() counts UTF-8 bytes (1 for an ASCII character, 2 for
\* the two-byte characters written "U+00xx")
MdnsResolved ==
    /\ fn = "scan_mdns"
    /\ out.tag \in {"NotCalled", "Running"}
    /\ LET seen == IF out.tag = "NotCalled" THEN 0 ELSE out.seen
           resolved_names == IF out.tag = "NotCalled" THEN EmptyMap ELSE out.value
           len(name) ==
               LET bytes[k \in 0..Len(name)] ==
                       IF k = 0 THEN 0
                       ELSE bytes[k - 1] + (IF Len(name[k]) = 1 THEN 1 ELSE 2)
               IN  bytes[Len(name)]
       IN  /\ seen < Len(arg)
           /\ LET event == arg[seen + 1]
                  name == display_name(event.info)
                  taken == {ip \in event.addresses :
                               \/ ip \notin DOMAIN resolved_names
                               \/ len(name) > len(resolved_names[ip])}
              IN  out' = [tag |-> "Running", seen |-> seen + 1,
                          value |-> [ip \in DOMAIN resolved_names \cup taken |->
                                        IF ip \in taken THEN name
                                        ELSE resolved_names[ip]]]
    /\ UNCHANGED <<fn, arg>>
    /\ UNCHANGED <<scanVars, chunkVars, collectVars, storeVars>>

\* scan_mdns: the deadline has passed; browsing is stopped and resolved_names
\* is returned
MdnsDeadline ==
    /\ fn = "scan_mdns"
    /\ out.tag \in {"NotCalled", "Running"}
    /\ LET seen == IF out.tag = "NotCalled" THEN 0 ELSE out.seen
           resolved_names == IF out.tag = "NotCalled" THEN EmptyMap ELSE out.value
       IN  /\ seen = Len(arg)
           /\ out' = [tag |-> "Ok", seen |-> seen, value |-> resolved_names]
    /\ UNCHANGED <<fn, arg>>
    /\ UNCHANGED <<scanVars, chunkVars, collectVars, storeVars>>

\* the arguments a function is called with
ArgsOf(f) ==
    CASE f = "get_ips_in_subnet" -> SubnetArgs
      [] f = "parse_arp_table" -> ArpTables \cup {<<>>}
      [] f = "build_nbns_status_request" -> 0..65535
      [] f = "parse_nbns_response" -> NbnsResponses
      [] f = "display_name" -> ResolvedServices
      [] f = "identify_device_type" -> FingerprintArgs
      [] f = "calculate_security_score" -> DeviceArgs
      [] f = "scan_mdns" -> MdnsEvents
      [] f = "identify_services" -> DeviceArgs
      [] f = "scan_ports" -> ProbeArgs

CallInit ==
    /\ ScanIdle
    /\ ChunkIdle
    /\ CollectIdle
    /\ StoreIdle
    /\ fn \in {"get_ips_in_subnet", "parse_arp_table",
               "build_nbns_status_request", "parse_nbns_response",
               "display_name", "identify_device_type",
               "calculate_security_score", "scan_mdns",
               "identify_services", "scan_ports"}
    /\ arg \in ArgsOf(fn)
    /\ out = NotCalled

CallSubnet ==
    /\ fn = "get_ips_in_subnet"
    /\ out = NotCalled
    /\ \E overflow_checks \in BOOLEAN :
         out' = get_ips_in_subnet(arg.ip, arg.mask, overflow_checks)
    /\ UNCHANGED <<fn, arg>>
    /\ UNCHANGED <<scanVars, chunkVars, collectVars, storeVars>>

\* parse_arp_table on a /proc/net/arp that could be opened
CallArp ==
    /\ fn = "parse_arp_table"
    /\ out = NotCalled
    /\ out' = [tag |-> "Ok", value |-> parse_arp_table(arg)]
    /\ UNCHANGED <<fn, arg>>
    /\ UNCHANGED <<scanVars, chunkVars, collectVars, storeVars>>

\* build_nbns_status_request with the two id bytes in little-endian order
build_nbns_status_request_LittleEndian(transaction_id) ==
    <<transaction_id % 256, transaction_id \div 256>>
    \o <<0, 0, 0, 1, 0, 0, 0, 0, 0, 0>>
    \o <<32>> \o <<67, 75>> \o [k \in 1..30 |-> 65] \o <<0>>
    \o <<0, 33, 0, 1>>

\* fn build_nbns_status_request(transaction_id: u16) -> Vec<u8>; the bytes of
\* b"CKAAAAAAAAAAAAAAAAAAAAAAAAAAAAAA" are 67 ('C'), 75 ('K') and thirty 65 ('A')
build_nbns_status_request(transaction_id) ==
    <<transaction_id \div 256, transaction_id % 256>>  \* to_be_bytes()
    \o <<0, 0>>                             \* flags
    \o <<0, 1>>                             \* questions
    \o <<0, 0>> \o <<0, 0>> \o <<0, 0>>     \* answer, authority, additional
    \o <<32>>                               \* 0x20
    \o <<67, 75>> \o [k \in 1..30 |-> 65]
    \o <<0>>
    \o <<0, 33>>                            \* 0x0021
    \o <<0, 1>>                             \* class IN

CallBuildRequest ==
    /\ fn = "build_nbns_status_request"
    /\ out = NotCalled
    /\ out' = [tag |-> "Ok", value |-> build_nbns_status_request(arg)]
    /\ UNCHANGED <<fn, arg>>
    /\ UNCHANGED <<scanVars, chunkVars, collectVars, storeVars>>

CallNext ==
    \/ CallSubnet
    \/ CallArp
    \/ CallBuildRequest
    \/ CallParseResponse
    \/ CallDisplayName
    \/ CallIdentify
    \/ CallScore
    \/ CallRefine
    \/ CallScanPorts
    \/ MdnsResolved
    \/ MdnsDeadline

CallSpec == CallInit /\ [][CallNext]_vars

\* get_ips_in_subnet has returned or panicked
SubnetCalled == fn = "get_ips_in_subnet" /\ out # NotCalled

\* the Vec get_ips_in_subnet returned
SubnetIps == PushRange(out.from, out.to)

\* the number of set bits of a 16-bit value
RECURSIVE PopCount(_)
PopCount(x) == IF x = 0 THEN 0 ELSE (x % 2) + PopCount(x \div 2)

\* popcount(~mask)
HostBits(mask) == PopCount(Not32(mask)[1]) + PopCount(Not32(mask)[2])

\* ip & mask and (ip & mask) | ~mask
NetworkOf(a) == And32(a.ip, a.mask)
BroadcastOf(a) == Or32(NetworkOf(a), Not32(a.mask))

\* the mask's set bits are contiguous from the top
IsContiguous(mask) == \E h \in 0..16 : mask = Netmask(h)

\* every returned address lies strictly inside the subnet of ip and mask
InsideSubnet ==
    \A k \in 1..Len(SubnetIps) :
        /\ SubnetIps[k] # NetworkOf(arg)
        /\ SubnetIps[k] # BroadcastOf(arg)
        /\ And32(SubnetIps[k], arg.mask) = NetworkOf(arg)

\* C12 as stated: for every ip and mask get_ips_in_subnet returns
\* popcount(~mask) - 2 addresses, none the network or the broadcast address,
\* each with (a & mask) = (ip & mask)
C12_HostCountPopcount ==
    SubnetCalled =>
        /\ out.tag = "Ok"
        /\ ~out.wrapped
        /\ Len(SubnetIps) = HostBits(arg.mask) - 2
        /\ InsideSubnet

\* C12 amended: for every ip and every contiguous mask with at least one host
\* bit get_ips_in_subnet returns 2^popcount(~mask) - 2 addresses, none the
\* network or the broadcast address, each with (a & mask) = (ip & mask)
C12_HostCountPowerOfTwo ==
    (SubnetCalled /\ IsContiguous(arg.mask) /\ HostBits(arg.mask) >= 1) =>
        /\ out.tag = "Ok"
        /\ ~out.wrapped
        /\ Len(SubnetIps) = 2^HostBits(arg.mask) - 2
        /\ InsideSubnet

\* a /28 was asked for and its 14 host addresses returned
C12_Witness ==
    /\ SubnetCalled
    /\ arg.mask = Netmask(4)
    /\ out.tag = "Ok"
    /\ Len(SubnetIps) = 14

\* from + k modulo 2^32, k < 65536
Plus32(a, k) ==
    IF a[2] + k < 65536 THEN <<a[1], a[2] + k>>
    ELSE <<(a[1] + 1) % 65536, a[2] + k - 65536>>

\* C13: for every 32-bit ip and mask get_ips_in_subnet returns exactly the
\* addresses network+1 .. broadcast-1 in ascending order, computed without
\* 32-bit overflow; exactly the two host addresses for a /30 and the empty
\* list for /31 and /32, ip 255.255.255.255 included
C13_SubnetRange ==
    SubnetCalled =>
        /\ out.tag = "Ok"
        /\ ~out.wrapped
        /\ \A k \in 1..Len(SubnetIps) :
               /\ SubnetIps[k] = Plus32(NetworkOf(arg), k)
               /\ Lt32(SubnetIps[k], BroadcastOf(arg))
        /\ (Len(SubnetIps) = 0
               \/ Succ32(SubnetIps[Len(SubnetIps)]) = BroadcastOf(arg))
        /\ (Len(SubnetIps) = 0 => ~Lt32(Succ32(NetworkOf(arg)), BroadcastOf(arg)))
        /\ (arg.mask = Netmask(2) =>
               SubnetIps = <<Plus32(NetworkOf(arg), 1), Plus32(NetworkOf(arg), 2)>>)
        /\ (arg.mask \in {Netmask(1), Netmask(0)} => SubnetIps = <<>>)

\* parse_arp_table has returned
ArpCalled == fn = "parse_arp_table" /\ out # NotCalled

\* the line has at least six fields and its fourth is not the all-zero MAC
ArpLineCounts(line) == Len(line) >= 6 /\ line[4] # ZeroMac

\* C14: the ARP read skips the first line and yields, in file order, the pair
\* (field 1, field 4) of exactly the following lines that have at least six
\* whitespace-separated fields and a field 4 other than 00:00:00:00:00:00;
\* the all-zero MAC never appears in the result
C14_ArpRead ==
    ArpCalled =>
        LET counted == IF arg = <<>> THEN <<>>
                       ELSE SelectSeq(Tail(arg), ArpLineCounts)
        IN  /\ out.tag = "Ok"
            /\ Len(out.value) = Len(counted)
            /\ \A k \in 1..Len(counted) :
                   out.value[k] = <<counted[k][1], counted[k][4]>>
            /\ \A k \in 1..Len(out.value) : out.value[k][2] # ZeroMac

\* a table with an all-zero MAC line or a short line followed by a line that
\* counts was read
C14_Witness ==
    /\ ArpCalled
    /\ Len(arg) = 3
    /\ ~ArpLineCounts(arg[2])
    /\ ArpLineCounts(arg[3])
    /\ Len(out.value) = 1

\* the ASCII code of a character of the encoded wildcard name
Ascii(c) == CASE c = "A" -> 65 [] c = "C" -> 67 [] c = "K" -> 75

\* C15: for every 16-bit transaction id the NBNS request builder returns
\* exactly 50 bytes: 0..2 the id big-endian, 2..4 0x0000, 4..6 0x0001, 6..12
\* zero, byte 12 0x20, 13..45 ASCII CKAAAAAAAAAAAAAAAAAAAAAAAAAAAAAA, byte 45
\* 0x00, 46..48 0x0021 and 48..50 0x0001
C15_RequestLayout ==
    (fn = "build_nbns_status_request" /\ out # NotCalled) =>
        LET p == out.value
            name == <<"C", "K">> \o [k \in 1..30 |-> "A"]
        IN  /\ Len(p) = 50
            /\ Byte(p, 0) * 256 + Byte(p, 1) = arg
            /\ Byte(p, 0) \in 0..255 /\ Byte(p, 1) \in 0..255
            /\ Byte(p, 2) = 0 /\ Byte(p, 3) = 0
            /\ Byte(p, 4) = 0 /\ Byte(p, 5) = 1
            /\ \A i \in 6..11 : Byte(p, i) = 0
            /\ Byte(p, 12) = 32
            /\ \A i \in 13..44 : Byte(p, i) = Ascii(name[i - 12])
            /\ Byte(p, 45) = 0
            /\ Byte(p, 46) = 0 /\ Byte(p, 47) = 33
            /\ Byte(p, 48) = 0 /\ Byte(p, 49) = 1

\* the request for transaction id 0x1234 was built
C15_Witness ==
    /\ fn = "build_nbns_status_request"
    /\ arg = 4660
    /\ out # NotCalled
    /\ Byte(out.value, 0) = 18
    /\ Byte(out.value, 1) = 52

\* parse_nbns_response has returned
ParseCalled == fn = "parse_nbns_response" /\ out # NotCalled

\* offset of the byte after the answer's name, type, class, ttl and length
NamesAt(data) ==
    (IF Byte(data, 12) >= 192 THEN 14 ELSE SkipName(data, 12) + 1) + 10

\* the entries of the response: the k-th of those the count byte announces
\* that lie whole inside the data, k counted from 1
EntryCount(data) ==
    IF NamesAt(data) >= Len(data) THEN 0
    ELSE LET fit == (Len(data) - NamesAt(data) - 1) \div 18
         IN  IF Byte(data, NamesAt(data)) < fit
             THEN Byte(data, NamesAt(data)) ELSE fit

EntryName(data, k) ==
    Utf8Lossy(SubSeq(data, NamesAt(data) + 18 * (k - 1) + 2,
                     NamesAt(data) + 18 * (k - 1) + 16))

EntryIsGroup(data, k) == Byte(data, NamesAt(data) + 18 * (k - 1) + 17) >= 128

\* s without its trailing characters from the set `strip`
RECURSIVE Stripped(_, _)
Stripped(s, strip) ==
    IF s # <<>> /\ s[Len(s)] \in strip
    THEN Stripped(SubSeq(s, 1, Len(s) - 1), strip)
    ELSE s

\* the parser's result when trailing characters of `strip` are stripped: none
\* under 57 bytes, else the stripped name of the first entry that is no group
\* entry and whose stripped name is not empty, none without such an entry
ParsedAsClaimed(strip) ==
    LET good == {k \in 1..EntryCount(arg) :
                    /\ ~EntryIsGroup(arg, k)
                    /\ Stripped(EntryName(arg, k), strip) # <<>>}
        first == CHOOSE k \in good : \A j \in good : k <= j
    IN  IF Len(arg) < 57 \/ good = {} THEN out.value = None
        ELSE out.value = Some(Stripped(EntryName(arg, first), strip))

\* C16: the parser returns none for any input shorter than 57 bytes;
\* otherwise, after the header, the answer name and 10 further bytes, the
\* 15-byte name, trailing spaces stripped, of the first entry whose flags bit
\* 15 is clear and whose stripped name is nonempty, none without such an entry
C16_TrailingSpacesStripped == ParseCalled => ParsedAsClaimed({32})

\* what the parser does: the same with every trailing whitespace character
\* stripped
ParsedWhitespaceStripped ==
    ParseCalled => ParsedAsClaimed({9, 10, 11, 12, 13, 32})

\* the display name of a resolved service has been computed
NameCalled == fn = "display_name" /\ out # NotCalled

\* the text before the first dot of the full name
InstanceLabel(info) ==
    IF \E i \in 1..Len(info.fullname) : info.fullname[i] = "."
    THEN SubSeq(info.fullname, 1,
                (CHOOSE i \in 1..Len(info.fullname) :
                    /\ info.fullname[i] = "."
                    /\ \A j \in 1..(i - 1) : info.fullname[j] # ".") - 1)
    ELSE info.fullname

\* the hostname without its trailing dot
BareHostname(info) ==
    IF info.hostname # <<>> /\ info.hostname[Len(info.hostname)] = "."
    THEN SubSeq(info.hostname, 1, Len(info.hostname) - 1)
    ELSE info.hostname

\* the TXT records with key fn, n or name; with a value when `valued`
NameRecords(info, valued) ==
    {i \in 1..Len(info.properties) :
        /\ info.properties[i].key \in {<<"f", "n">>, <<"n">>, <<"n", "a", "m", "e">>}
        /\ valued => info.properties[i].val # <<>>}

\* the instance label when nonempty and different from the bare hostname,
\* else the bare hostname
LabelOrHostname(info) ==
    IF InstanceLabel(info) # <<>> /\ InstanceLabel(info) # BareHostname(info)
    THEN InstanceLabel(info)
    ELSE BareHostname(info)

\* C17 as stated: the display name is the value of a TXT record with key fn,
\* n or name when one is present, else the instance label when it is
\* nonempty and differs from the hostname without its trailing dot, else
\* that hostname
C17_TxtWhenPresent ==
    NameCalled =>
        IF NameRecords(arg, FALSE) # {}
        THEN \E i \in NameRecords(arg, FALSE) : out.value = arg.properties[i].val
        ELSE out.value = LabelOrHostname(arg)

\* C17 amended: the display name is the value of the first TXT record with
\* key fn, n or name and a nonempty value when there is one, else the
\* instance label when it is nonempty and differs from the hostname without
\* its trailing dot, else that hostname
C17_TxtWhenValued ==
    NameCalled =>
        IF NameRecords(arg, TRUE) # {}
        THEN out.value = arg.properties[CHOOSE i \in NameRecords(arg, TRUE) :
                                \A j \in NameRecords(arg, TRUE) : i <= j].val
        ELSE out.value = LabelOrHostname(arg)

\* a service whose only name record has no value got its instance label, and
\* the label differs from the hostname
C17_Witness ==
    /\ NameCalled
    /\ NameRecords(arg, FALSE) # {}
    /\ NameRecords(arg, TRUE) = {}
    /\ out.value = <<"D", "e", "n">>

\* ============================================================== scan_ssdp
\* scan_ssdp from the collection loop on: datagram by datagram, then the
\* fetches of the device descriptions.

\* fn extract_header(response, header_name); the response is the sequence of
\* its lines(), each a sequence of characters
extract_header(response, header_name) ==
    LET header_lower == ToLower(header_name)
        starts_with(s, p) == Len(s) >= Len(p) /\ SubSeq(s, 1, Len(p)) = p
        colons(line) == {i \in 1..Len(line) : line[i] = ":"}
        \* line.find(':')
        find(line) == CHOOSE i \in colons(line) : \A j \in colons(line) : i <= j
        blank == {" ", "\t", "\r"}
        \* str::trim()
        trim(s) ==
            LET inked == {i \in 1..Len(s) : s[i] \notin blank}
            IN  IF inked = {} THEN <<>>
                ELSE SubSeq(s, CHOOSE i \in inked : \A j \in inked : i <= j,
                               CHOOSE i \in inked : \A j \in inked : i >= j)
        hits == {k \in 1..Len(response) :
                    /\ starts_with(ToLower(response[k]), header_lower)
                    /\ colons(response[k]) # {}}
        line == response[CHOOSE k \in hits : \A j \in hits : k <= j]
    IN  IF hits = {} THEN None
        ELSE Some(trim(SubSeq(line, find(line) + 1, Len(line))))

\* the most datagrams received before the collection deadline
MaxResponses == 3

\* the responses a device may send: a status line and one header line, which
\* is LOCATION in upper or lower case, a LOCATION line without a colon before
\* a LOCATION line, another header, or a header whose name only begins with
\* LOCATION
SsdpResponses ==
    LET status == <<"H", "T", "T", "P", "/", "1", ".", "1", " ", "2", "0", "0">>
    IN  {<<status, <<"L", "O", "C", "A", "T", "I", "O", "N", ":", " ", "h", ":", "1">>>>,
         <<status, <<"l", "o", "c", "a", "t", "i", "o", "n", ":", "h", ":", "2", " ">>>>,
         <<status, <<"L", "o", "c", "a", "t", "i", "o", "n">>,
                   <<"L", "o", "c", "a", "t", "i", "o", "n", ":", "h", ":", "3">>>>,
         <<status, <<"S", "T", ":", " ", "a", "l", "l">>>>,
         <<status, <<"L", "O", "C", "A", "T", "I", "O", "N", "-", "X", ":", " ", "h", ":", "9">>>>}

\* the friendlyName the description at `url` carries
FriendlyNameAt(url) == <<"N", "@">> \o url

\* the socket is bound and the M-SEARCH sent
CollectInit ==
    /\ ScanIdle
    /\ CallIdle
    /\ ChunkIdle
    /\ StoreIdle
    /\ collector = "recv"
    /\ responses = <<>>
    /\ location_map = EmptyMap
    /\ device_names = EmptyMap

\* recv_from returned a datagram before the deadline
Receive ==
    /\ collector = "recv"
    /\ Len(responses) < MaxResponses
    /\ \E ip \in Ips, response \in SsdpResponses :
         LET location == extract_header(response, <<"L", "O", "C", "A", "T", "I", "O", "N">>)
         IN  /\ responses' = Append(responses, [ip |-> ip, response |-> response])
             \* location_map.entry(ip).or_insert(location)
             /\ location_map' =
                    IF IsSome(location) /\ ip \notin DOMAIN location_map
                    THEN [i \in DOMAIN location_map \cup {ip} |->
                             IF i = ip THEN Unwrap(location) ELSE location_map[i]]
                    ELSE location_map
    /\ UNCHANGED <<collector, device_names>>
    /\ UNCHANGED <<scanVars, callVars, chunkVars, storeVars>>

\* the deadline passed or recv_from failed: the loop is left
CollectEnds ==
    /\ collector = "recv"
    /\ collector' = "fetch"
    /\ UNCHANGED <<responses, location_map, device_names>>
    /\ UNCHANGED <<scanVars, callVars, chunkVars, storeVars>>

\* one task per entry fetches the description; the entries whose task gave
\* Ok(Some((ip, name))) are inserted
FetchNames ==
    /\ collector = "fetch"
    /\ \E fetched \in SUBSET DOMAIN location_map :
         device_names' = [ip \in fetched |-> FriendlyNameAt(location_map[ip])]
    /\ collector' = "returned"
    /\ UNCHANGED <<responses, location_map>>
    /\ UNCHANGED <<scanVars, callVars, chunkVars, storeVars>>

CollectNext ==
    \/ Receive
    \/ CollectEnds
    \/ FetchNames

CollectSpec == CollectInit /\ [][CollectNext]_vars

\* =============================================================== database
\* database/mod.rs: the tables scans and devices behind the handle DB.

\* #[serde(rename_all = "snake_case")] on the enums of the data model: the
\* string a variant is written as
SnakeCase(variant) ==
    CASE variant = "SmartSpeaker" -> "smart_speaker"
      [] variant = "SmartTv" -> "smart_tv"
      [] variant = "SmartPlug" -> "smart_plug"
      [] variant = "Router" -> "router"
      [] variant = "Camera" -> "camera"
      [] variant = "Printer" -> "printer"
      [] variant = "Nas" -> "nas"
      [] variant = "Computer" -> "computer"
      [] variant = "Smartphone" -> "smartphone"
      [] variant = "Unknown" -> "unknown"
      [] variant = "Safe" -> "safe"
      [] variant = "Warning" -> "warning"
      [] variant = "Danger" -> "danger"
      [] variant = "Info" -> "info"
      [] variant = "Low" -> "low"
      [] variant = "Medium" -> "medium"
      [] variant = "High" -> "high"
      [] variant = "Critical" -> "critical"

\* most save_scan calls followed
MaxScans == 3

\* longest device list saved
MaxDevices == 2

\* the device lists save_scan is called with: devices as scan_network returns
\* them, a Level1 device and a Level3 device with the ports 23 and 80 open
DeviceLists ==
    LET plain == calculate_security_score(NewDevice(1, Ip1, MacOther, None))
        probed == [NewDevice(2, Ip2, ToUpper(MacPi), Some(NameDns))
                      EXCEPT !.open_ports = scan_ports({23, 80})]
        risky == calculate_security_score(check_vulnerabilities(probed))
    IN  SeqsUpTo({plain, risky}, MaxDevices)

\* pub fn init(): the connection is opened, the tables and the index are
\* created if they do not exist, and DB is set; it runs once, at startup, and
\* leaves DB unset when Connection::open or a CREATE fails
DbInit ==
    /\ dbCall = NotCalled
    /\ \E opened \in BOOLEAN :
           /\ db' = IF opened THEN "open" ELSE "unset"
           /\ dbCall' = [op |-> "init", arg |-> <<>>,
                         result |-> IF opened THEN Ok(<<>>) ELSE Err("Sqlite")]
    /\ UNCHANGED <<scans, device_rows>>
    /\ UNCHANGED <<scanVars, callVars, chunkVars, collectVars>>

\* pub fn save_scan(devices: &[Device]) -> Result<String, DbError>.  Every
\* conn.execute is its own transaction.  scan_id stands for the fresh UUID.
\* INSERT INTO devices fails on a device id that table devices already holds
\* (id TEXT PRIMARY KEY), and `?` returns the error at that device.  `saved`
\* is the argument devices.
SaveScan ==
    /\ dbCall # NotCalled
    /\ Len(scans) < MaxScans
    /\ \E saved \in DeviceLists :
         LET scan_id == Len(scans) + 1
             device_count == Len(saved)
             sum[k \in 0..device_count] ==
                 IF k = 0 THEN 0 ELSE sum[k - 1] + saved[k].security_score
             issues[k \in 0..device_count] ==
                 IF k = 0 THEN 0 ELSE issues[k - 1] + Len(saved[k].issues)
             average_score ==
                 IF saved = <<>> THEN 0 ELSE (sum[device_count] \div device_count) % 256
             \* serde_json::to_string(device): None is written null, an enum
             \* as the snake_case string of its variant
             option(o) == IF o = None THEN [null |-> TRUE] ELSE [string |-> Unwrap(o)]
             port(p) == [number |-> p.number, protocol |-> p.protocol,
                         service |-> option(p.service),
                         version |-> option(p.version), is_secure |-> p.is_secure]
             issue(i) == [id |-> i.id, severity |-> SnakeCase(i.severity)]
             to_string(d) ==
                 [id |-> d.id, name |-> option(d.name),
                  device_type |-> SnakeCase(d.device_type), ip |-> d.ip,
                  mac |-> d.mac, vendor |-> option(d.vendor),
                  hostname |-> option(d.hostname),
                  open_ports |-> [k \in 1..Len(d.open_ports) |-> port(d.open_ports[k])],
                  security_level |-> SnakeCase(d.security_level),
                  security_score |-> d.security_score,
                  issues |-> [k \in 1..Len(d.issues) |-> issue(d.issues[k])]]
             stored == {device_rows[k].id : k \in 1..Len(device_rows)}
             \* the entries of devices whose INSERT violates the primary key
             clash == {k \in 1..device_count :
                          \/ saved[k].id \in stored
                          \/ \E j \in 1..(k - 1) : saved[j].id = saved[k].id}
             inserted == IF clash = {} THEN device_count
                         ELSE (CHOOSE k \in clash : \A j \in clash : k <= j) - 1
         IN  IF db = "unset"
             THEN /\ dbCall' = [op |-> "save_scan", arg |-> saved,
                                result |-> Err("NotInitialized")]
                  /\ UNCHANGED <<scans, device_rows>>
             ELSE /\ scans' = Append(scans,
                                 [id |-> scan_id, device_count |-> device_count,
                                  average_score |-> average_score,
                                  issues_found |-> issues[device_count]])
                  /\ device_rows' =
                         device_rows \o
                         [k \in 1..inserted |->
                             [id |-> saved[k].id, scan_id |-> scan_id,
                              data |-> to_string(saved[k])]]
                  /\ dbCall' = [op |-> "save_scan", arg |-> saved,
                                result |-> IF clash = {} THEN Ok(scan_id)
                                           ELSE Err("Sqlite")]
    /\ UNCHANGED db
    /\ UNCHANGED <<scanVars, callVars, chunkVars, collectVars>>

\* pub fn get_scan_devices(scan_id: &str) -> Result<Vec<Device>, DbError>:
\* the rows WHERE scan_id = ?1 in rowid order, each data deserialized
get_scan_devices(scan_id) ==
    LET \* serde_json::from_str::<Device>(&data)
        variant(S, text) == CHOOSE v \in S : SnakeCase(v) = text
        option(j) == IF "null" \in DOMAIN j THEN None ELSE Some(j.string)
        port(j) == [number |-> j.number, protocol |-> j.protocol,
                    service |-> option(j.service),
                    version |-> option(j.version), is_secure |-> j.is_secure]
        issue(j) == SecurityIssue(j.id, variant(IssueSeverity, j.severity))
        from_str(j) ==
            [id |-> j.id, name |-> option(j.name),
             device_type |-> variant(DeviceType, j.device_type), ip |-> j.ip,
             mac |-> j.mac, vendor |-> option(j.vendor),
             hostname |-> option(j.hostname),
             open_ports |-> [k \in 1..Len(j.open_ports) |-> port(j.open_ports[k])],
             security_level |-> variant(SecurityLevel, j.security_level),
             security_score |-> j.security_score,
             issues |-> [k \in 1..Len(j.issues) |-> issue(j.issues[k])]]
        rows == SelectSeq(device_rows, LAMBDA row : row.scan_id = scan_id)
    IN  IF db = "unset" THEN Err("NotInitialized")
        ELSE Ok([k \in 1..Len(rows) |-> from_str(rows[k].data)])

\* get_scan_devices called with the id of a scan row or any other id
GetScanDevices ==
    /\ dbCall # NotCalled
    /\ \E scan_id \in 1..(MaxScans + 1) :
           dbCall' = [op |-> "get_scan_devices", arg |-> scan_id,
                      result |-> get_scan_devices(scan_id)]
    /\ UNCHANGED <<db, scans, device_rows>>
    /\ UNCHANGED <<scanVars, callVars, chunkVars, collectVars>>

\* the process has started; database::init has not yet run
StoreInit ==
    /\ ScanIdle
    /\ CallIdle
    /\ ChunkIdle
    /\ CollectIdle
    /\ StoreIdle

StoreNext ==
    \/ DbInit
    \/ SaveScan
    \/ GetScanDevices

StoreSpec == StoreInit /\ [][StoreNext]_vars

\* the header lines of a response: the lines with a colon; the name is the
\* text before the first colon, the value the text after it without the
\* blanks around it
HeaderName(line) ==
    SubSeq(line, 1, (CHOOSE i \in 1..Len(line) :
                        line[i] = ":" /\ \A j \in 1..(i - 1) : line[j] # ":") - 1)

LocationLines(response) ==
    {k \in 1..Len(response) :
        /\ \E i \in 1..Len(response[k]) : response[k][i] = ":"
        /\ ToLower(HeaderName(response[k])) = <<"l", "o", "c", "a", "t", "i", "o", "n">>}

\* the datagrams from ip that carry a LOCATION header
WithLocation(ip) ==
    {k \in 1..Len(responses) :
        responses[k].ip = ip /\ LocationLines(responses[k].response) # {}}

\* the value of the LOCATION header of the first datagram from ip that has one
FirstLocation(ip) ==
    LET k == CHOOSE k \in WithLocation(ip) : \A j \in WithLocation(ip) : k <= j
        response == responses[k].response
        line == response[CHOOSE n \in LocationLines(response) :
                            \A m \in LocationLines(response) : n <= m]
        text == SubSeq(line, Len(HeaderName(line)) + 2, Len(line))
        inked == {i \in 1..Len(text) : text[i] # " "}
    IN  SubSeq(text, CHOOSE i \in inked : \A j \in inked : i <= j,
                     CHOOSE i \in inked : \A j \in inked : i >= j)

\* C18: for every sequence of SSDP replies the LOCATION kept for a source IP
\* is the one of the first reply from that IP that carries a LOCATION header,
\* the header name matched case-insensitively, never replaced by a later
\* reply; the returned map holds for each IP at most the friendlyName fetched
\* from that first LOCATION
C18_FirstLocationKept ==
    /\ DOMAIN location_map = {ip \in Ips : WithLocation(ip) # {}}
    /\ \A ip \in DOMAIN location_map : location_map[ip] = FirstLocation(ip)
    /\ DOMAIN device_names \subseteq DOMAIN location_map
    /\ \A ip \in DOMAIN device_names :
           device_names[ip] = FriendlyNameAt(FirstLocation(ip))

\* identify_device_type has returned
IdentifyCalled == fn = "identify_device_type" /\ out # NotCalled

\* the lowercase name contains a pattern of one of the three name sets
NameMatches(name) ==
    /\ IsSome(name)
    /\ \E set \in {SMARTPHONE_NAME_PATTERNS, COMPUTER_NAME_PATTERNS, TV_NAME_PATTERNS} :
           \E k \in 1..Len(set) : Contains(ToLower(Unwrap(name)), set[k])

\* the vendor of the MAC's OUI contains a pattern of the IoT vendor set
IotOui(mac) ==
    /\ IsSome(lookup_vendor(mac))
    /\ \E k \in 1..Len(IOT_VENDORS) : Contains(Unwrap(lookup_vendor(mac)), IOT_VENDORS[k])

\* C19: the Fingerprinter called with a MAC whose OUI maps to an IoT vendor
\* (B8:27:EB:00:00:01), with the vendor argument absent and a name that
\* matches no name pattern (raspberrypi), returns device type SmartPlug
C19_VendorLookedUpFromMac ==
    (IdentifyCalled /\ IotOui(arg.mac) /\ arg.vendor = None /\ ~NameMatches(arg.name))
        => out.value = "SmartPlug"

\* the rungs in the order of the ladder: the three name sets, the seven vendor
\* sets, the five vendor families; each with the type it gives
NameRungs ==
    <<<<SMARTPHONE_NAME_PATTERNS, "Smartphone">>,
      <<COMPUTER_NAME_PATTERNS, "Computer">>,
      <<TV_NAME_PATTERNS, "SmartTv">>>>

VendorRungs ==
    <<<<ROUTER_VENDORS, "Router">>,
      <<CAMERA_VENDORS, "Camera">>,
      <<SMART_SPEAKER_VENDORS, "SmartSpeaker">>,
      <<SMARTPHONE_VENDORS, "Smartphone">>,
      <<SMART_TV_VENDORS, "SmartTv">>,
      <<GAMING_VENDORS, "SmartPlug">>,
      <<IOT_VENDORS, "SmartPlug">>,
      <<<<<<"A", "p", "p", "l", "e">>>>, "Smartphone">>,
      <<<<<<"G", "o", "o", "g", "l", "e">>>>, "SmartSpeaker">>,
      <<<<<<"A", "m", "a", "z", "o", "n">>>>, "SmartSpeaker">>,
      <<<<<<"S", "o", "n", "y">>>>, "SmartTv">>,
      <<<<<<"I", "n", "t", "e", "l">>>>, "Computer">>>>

\* the rungs of `rungs` of which text contains a pattern
Matching(rungs, text) ==
    {r \in 1..Len(rungs) :
        \E k \in 1..Len(rungs[r][1]) : Contains(text, rungs[r][1][k])}

\* the type of the first rung of `rungs` that matches text
FirstRung(rungs, text) ==
    rungs[CHOOSE r \in Matching(rungs, text) :
              \A q \in Matching(rungs, text) : r <= q][2]

ScoreCalled == fn = "calculate_security_score" /\ out.tag = "Ok"

\* number of issues of one severity in a list
CountSeverity(issues, severity) ==
    Cardinality({k \in 1..Len(issues) : issues[k].severity = severity})

\* the device is what a Level 3 scan hands to the scorer for a host that
\* accepts connections on exactly the ports 23 and 80
Level3TelnetHttp(device) ==
    /\ [k \in 1..Len(device.open_ports) |-> device.open_ports[k].number] = <<23, 80>>
    /\ device.issues = check_vulnerabilities([device EXCEPT !.issues = <<>>]).issues

\* C21: for every list of issues and open ports, the scorer sets
\* security_score to 100 minus 40 per Critical, 25 per High, 15 per Medium,
\* 5 per Low and 0 per Info issue, minus 5 per open port with is_secure =
\* false, clamped to 0..100: empty issues and ports give 100, one Critical
\* issue alone gives 60, and a Level 3 device with open ports {23, 80} gets 65
\* and level Warning.
C21_ScoreArithmetic ==
    ScoreCalled =>
        LET insecure == Cardinality({k \in 1..Len(arg.open_ports) :
                                        arg.open_ports[k].is_secure = FALSE})
            raw == 100 - 40 * CountSeverity(arg.issues, "Critical")
                       - 25 * CountSeverity(arg.issues, "High")
                       - 15 * CountSeverity(arg.issues, "Medium")
                       - 5 * CountSeverity(arg.issues, "Low")
                       - 0 * CountSeverity(arg.issues, "Info")
                       - 5 * insecure
            score == out.value.security_score
        IN  /\ score = IF raw < 0 THEN 0 ELSE IF raw > 100 THEN 100 ELSE raw
            /\ arg.issues = <<>> /\ arg.open_ports = <<>> => score = 100
            /\ Len(arg.issues) = 1 /\ arg.issues[1].severity = "Critical"
               /\ arg.open_ports = <<>> => score = 60
            /\ Level3TelnetHttp(arg) =>
                   score = 65 /\ out.value.security_level = "Warning"

\* the scorer has returned for the Level 3 device with open ports {23, 80}
C21_Witness ==
    ScoreCalled /\ Level3TelnetHttp(arg) /\ out.value.security_score = 65

\* the scorer has clamped a score: issues and open ports that sum to more
\* than 100
C21_Clamped ==
    /\ ScoreCalled /\ out.value.security_score = 0
    /\ CountSeverity(arg.issues, "Critical") = 2
    /\ CountSeverity(arg.issues, "High") = 1
    /\ arg.open_ports # <<>>


\* the ports a device is reported open on
OpenNumbers(device) ==
    {device.open_ports[k].number : k \in 1..Len(device.open_ports)}

\* how many issues of a device have this id and this severity
IssueCount(device, id, severity) ==
    Cardinality({k \in 1..Len(device.issues) :
                    device.issues[k] = SecurityIssue(id, severity)})

\* C22: issues are synthesized only at Level 3: at Level1 and Level2 every
\* returned device has an empty issue list; at Level 3 a device has a High
\* issue telnet-open iff port 23 is among its open ports, a Medium issue
\* upnp-enabled iff port 1900 is, a Critical issue default-password iff the
\* default-password placeholder returns true, and no other issue, each at most
\* once.
C22_IssuesOnlyAtLevel3 ==
    ReturnedOk =>
        \A k \in 1..Len(Returned) :
            LET d == Returned[k]
                telnet == IssueCount(d, "telnet-open", "High")
                upnp == IssueCount(d, "upnp-enabled", "Medium")
                password == IssueCount(d, "default-password", "Critical")
            IN  /\ level \in {"Level1", "Level2"} => d.issues = <<>>
                /\ level = "Level3" =>
                       /\ telnet = (IF 23 \in OpenNumbers(d) THEN 1 ELSE 0)
                       /\ upnp = (IF 1900 \in OpenNumbers(d) THEN 1 ELSE 0)
                       /\ password = (IF has_default_password(d) THEN 1 ELSE 0)
                       /\ Len(d.issues) = telnet + upnp + password

\* a Level3 scan has returned a device with both issues and one with only the
\* UPnP issue, and ports 22 and 1900 open
C22_Witness ==
    /\ ReturnedOk /\ level = "Level3"
    /\ \E k \in 1..Len(Returned) : Len(Returned[k].issues) = 2
    /\ \E k \in 1..Len(Returned) :
           /\ OpenNumbers(Returned[k]) = {22, 1900}
           /\ Len(Returned[k].issues) = 1

\* a Level2 scan has returned a device with port 23 open
C22_Level2Telnet ==
    /\ ReturnedOk /\ level = "Level2"
    /\ \E k \in 1..Len(Returned) : 23 \in OpenNumbers(Returned[k])


\* C23: in a scan run at Level1 every returned device has an empty open_ports
\* list; the Port Prober is invoked (once for every device built) iff the scan
\* level is 2 or 3.
C23_ProberOnlyFromLevel2 ==
    /\ level = "Level1" => portIdx = 0 /\ pc # "ports"
    /\ ReturnedOk =>
           /\ level = "Level1" =>
                  \A k \in 1..Len(Returned) : Returned[k].open_ports = <<>>
           /\ level \in {"Level2", "Level3"} => portIdx = Len(Returned)

\* a Level1 scan has returned a device, none of them probed
C23_Witness ==
    ReturnedOk /\ level = "Level1" /\ Len(Returned) > 0 /\ portIdx = 0

\* a Level2 scan has returned two probed devices, one with open ports
C23_Level2Probed ==
    /\ ReturnedOk /\ level = "Level2" /\ portIdx = 2
    /\ \E k \in 1..Len(Returned) : Returned[k].open_ports # <<>>


\* save_scan has returned on an initialized store
SaveCalled == dbCall # NotCalled /\ dbCall.op = "save_scan" /\ db = "open"

\* the device rows recorded under a scan id
RowsOf(scan_id) == {k \in 1..Len(device_rows) : device_rows[k].scan_id = scan_id}

\* C24: on an initialized store, for every device list and every prior store
\* content (including one where the same devices were saved by an earlier
\* scan), save_scan returns a fresh scan id and records one scan row and one
\* row per device, so that get_scan_devices(scan_id) then returns exactly the
\* saved devices.
C24_SaveThenGet ==
    SaveCalled =>
        /\ dbCall.result.tag = "Ok"
        /\ LET scan_id == Unwrap(dbCall.result.value)
           IN  /\ Cardinality({k \in 1..Len(scans) : scans[k].id = scan_id}) = 1
               /\ Cardinality(RowsOf(scan_id)) = Len(dbCall.arg)
               /\ get_scan_devices(scan_id) = Ok(dbCall.arg)

\* what the store does: save_scan returns Ok unless a device id of the list is
\* already stored or repeated in the list, and then the scan row, one row per
\* device and the round trip through get_scan_devices are as C24 says
SaveThenGetWhenIdsNew ==
    SaveCalled =>
        LET scan_id == Len(scans)
            ids == {dbCall.arg[k].id : k \in 1..Len(dbCall.arg)}
            clash == \/ Cardinality(ids) # Len(dbCall.arg)
                     \/ \E k \in 1..Len(device_rows) :
                            /\ device_rows[k].id \in ids
                            /\ device_rows[k].scan_id # scan_id
        IN  /\ dbCall.result.tag = "Ok" <=> ~clash
            /\ dbCall.result.tag = "Ok" =>
                   /\ dbCall.result.value = Some(scan_id)
                   /\ scans[scan_id].id = scan_id
                   /\ Cardinality(RowsOf(scan_id)) = Len(dbCall.arg)
                   /\ get_scan_devices(scan_id) = Ok(dbCall.arg)

\* two devices, one of them with ports and an issue, were saved and read back
SavedTwo ==
    /\ SaveCalled /\ dbCall.result.tag = "Ok" /\ Len(dbCall.arg) = 2
    /\ Len(scans) = 2

\* C29: after any sequence of save_scan calls, including calls that return an
\* error part-way (for example on a device id that is already stored), every
\* scan row in the store has exactly device_count device rows with its scan
\* id: a failed save_scan leaves the store as it was before the call.
C29_ScanRowsComplete ==
    \A k \in 1..Len(scans) :
        Cardinality(RowsOf(scans[k].id)) = scans[k].device_count


\* no remote host has answered anything: no resolver has a name, no PTR
\* lookup has an answer and no probed port accepted a connection
NoHostAnswered ==
    /\ mdns_map = EmptyMap /\ ssdp_names = EmptyMap /\ nbns_names = EmptyMap
    /\ \A k \in 1..Len(dnsAnswers) : dnsAnswers[k] = None
    /\ \A k \in 1..Len(devices) : devices[k].open_ports = <<>>

ReportsFor(ip) ==
    IF fn = "scan_mdns" /\ out.tag \in {"Running", "Ok"}
    THEN {k \in 1..out.seen : ip \in arg[k].addresses}
    ELSE {}

\* the length of a name as String::len counts it: its UTF-8 bytes
NameBytes(name) ==
    Len(name) + Cardinality({k \in 1..Len(name) : Len(name[k]) > 1})

C26_MoreBytes ==
    /\ fn = "scan_mdns" /\ out.tag = "Ok" /\ out.seen = 2
    /\ ReportsFor(Ip1) = {1, 2}
    /\ Str(display_name(arg[1].info)) = "Den"
    /\ Len(out.value[Ip1]) = 2


\* identify_services has returned
RefineCalled == fn = "identify_services" /\ out.tag = "Ok"

\* the type the first of the ports 554 and 631 in a port list stands for
FirstTypedPort(open_ports) ==
    LET typed == {k \in 1..Len(open_ports) : open_ports[k].number \in {554, 631}}
        first == CHOOSE k \in typed : \A j \in typed : k <= j
    IN  IF open_ports[first].number = 554 THEN "Camera" ELSE "Printer"

C27_RouterWithRtsp ==
    RefineCalled /\ arg.device_type = "Router" /\ 554 \in OpenNumbers(arg)

\* an Unknown device with only the MQTT ports open went through it
C27_MqttOnly ==
    /\ RefineCalled /\ arg.device_type = "Unknown"
    /\ OpenNumbers(arg) = {1883, 8883}


\* scan_ports has returned
PortsCalled == fn = "scan_ports" /\ out # NotCalled

\* the fixed set of probed ports, in order
ProbedPorts ==
    <<21, 22, 23, 25, 53, 80, 443, 554, 1883, 1900, 5000, 5353, 8080, 8443,
      8883, 9000>>

\* the labels of the port-to-service table
ServiceLabels ==
    {"FTP", "SSH", "Telnet", "SMTP", "DNS", "HTTP", "HTTPS", "RTSP", "MQTT",
     "UPnP", "mDNS", "MQTT-TLS", "Unknown"}

\* C28: the Port Prober never returns an error: for every IP it returns, in
\* the order of the fixed set {21, 22, 23, 25, 53, 80, 443, 554, 1883, 1900,
\* 5000, 5353, 8080, 8443, 8883, 9000}, exactly the ports whose connect
\* attempt succeeded, each with protocol tcp, a service label from the fixed
\* table, and is_secure = true iff the port is one of 22, 443, 8443, 8883; a
\* failed, timed-out or crashed probe counts as a closed port.
C28_ProberReturnsOpenPorts ==
    PortsCalled =>
        /\ out.tag = "Ok"
        /\ LET succeeded == {k \in 1..Len(ProbedPorts) :
                                arg.parses /\ arg.probe[k] = "connected"}
               ports == out.value
           IN  /\ [k \in 1..Len(ports) |-> ports[k].number]
                      = SelectSeq(ProbedPorts,
                                  LAMBDA p : \E k \in succeeded : ProbedPorts[k] = p)
               /\ \A k \in 1..Len(ports) :
                      /\ ports[k].protocol = "tcp"
                      /\ ports[k].service \in {Some(l) : l \in ServiceLabels}
                      /\ ports[k].is_secure <=> ports[k].number \in {22, 443, 8443, 8883}

\* the prober has returned the ports 22, 8883 and 9000 for a host on which two
\* other probes timed out
C28_Witness ==
    /\ PortsCalled /\ arg.parses
    /\ arg.probe[1] = "timeout"
    /\ [k \in 1..Len(out.value) |-> out.value[k].number] = <<22, 8883, 9000>>

\* every probe crashed (the ip text is no address) and the prober returned no
\* port, although connections would have succeeded
C28_Crashed ==
    /\ PortsCalled /\ ~arg.parses
    /\ \E k \in 1..Len(ProbedPorts) : arg.probe[k] = "connected"
    /\ out = [tag |-> "Ok", value |-> <<>>]


\* ---- C30 ----

\* the 15-byte windows of data that lie inside it, decoded and trimmed
NamesInside(data) ==
    {TrimEnd(Utf8Lossy([k \in 1..15 |->
                           IF data[p + k] = 255 THEN 255 ELSE data[p + k] % 128])) :
        p \in 0..(Len(data) - 15)}

\* the parser is given bytes that are cut short, or whose label length or
\* declared number of names runs past the end
Hostile(data) ==
    \/ Len(data) < 57
    \/ /\ Len(data) >= 57
       /\ \/ SkipName(data, 12) >= Len(data)
          \/ /\ (Byte(data, 12) \div 64) % 4 = 3
             /\ 25 + 18 * Byte(data, 24) > Len(data)

\* C30: whatever bytes the NBNS response parser is given (cut short, a label
\* length running past the end, more names declared than entries present), it
\* returns, every index it reads is inside the input, and what it returns is
\* none or a name decoded from 15 bytes inside the input
C30_ParserStaysInside ==
    ParseCalled =>
        /\ out.tag = "Ok"
        /\ \A i \in parse_nbns_reads(arg) : 0 <= i /\ i < Len(arg)
        /\ \/ out.value = None
           \/ /\ Len(arg) >= 15
              /\ \E name \in NamesInside(arg) : out.value = Some(name)

C30_Witness ==
    /\ ParseCalled
    /\ Len(arg) >= 57
    /\ (Byte(arg, 12) \div 64) % 4 = 3
    /\ 25 + 18 * Byte(arg, 24) > Len(arg)
    /\ Len(arg) - 1 \in parse_nbns_reads(arg)
    /\ out.value = None

C30_NamedFromHostile ==
    ~(ParseCalled /\ Hostile(arg) /\ out.value # None)

C30_LabelPastEnd ==
    ~(ParseCalled /\ Len(arg) >= 57 /\ SkipName(arg, 12) > Len(arg)
      /\ out.value = None)

=============================================================================
